---------------------------- MODULE Spec2Model ----------------------------
(***************************************************************************)
(* Crawl coordination core of the distributed crawler:                     *)
(*   - AsyncDownloader.download  (downloader/async_downloader.py)          *)
(*   - RateLimiter.acquire       (downloader/rate_limiter.py)              *)
(*   - AntiBlockingMiddleware    (middleware/anti_blocking.py)             *)
(*   - CrawlerWorker             (core/worker_node.py)                     *)
(*   - DistributedManager queues (core/distributed_manager.py)             *)
(*   - URLManager seen-set       (utils/url_manager.py)                    *)
(* Time is a discrete clock `now` in seconds.                              *)
(***************************************************************************)
EXTENDS Integers, Sequences, FiniteSets, TLC

(***************************************************************************)
(* Bounds of the model.                                                    *)
(***************************************************************************)
NumCallers == 3
MaxTime == 4
MaxRetryTimes == 3
MaxConcurrentCfg == 2

\* RateLimiter(max_requests, time_window) as constructed for the model
\* (the defaults are 100 requests per 60 s).
max_requests == 1
time_window == 2

Callers == 1..NumCallers

(***************************************************************************)
(* What the server can do with one HTTP attempt: a transport error raised  *)
(* by session.get / response.read, or an HTTP reply.                       *)
(***************************************************************************)
Errors ==
  { [kind |-> "error", err |-> "timeout"],
    [kind |-> "error", err |-> "conn_reset"] }
\* Response headers as the server sends them (dict(response.headers)).
PlainHeaders == [n \in {"Server"} |-> "nginx"]
Replies ==
  { [kind |-> "reply", status |-> 200, content |-> "page",          headers |-> PlainHeaders],
    [kind |-> "reply", status |-> 404, content |-> "not found",     headers |-> PlainHeaders],
    [kind |-> "reply", status |-> 403, content |-> "access denied", headers |-> PlainHeaders],
    [kind |-> "reply", status |-> 429, content |-> "slow down",     headers |-> PlainHeaders] }
\* download() fell off its end: Python's None.
NoneResult == [kind |-> "None"]
\* Nothing yet.
NoOutcome == [kind |-> "nothing"]

Hosts == {"a.test", "b.test"}
\* The URL each caller passes to download(): its host.
HostOf(c) == IF c = NumCallers THEN "b.test" ELSE "a.test"

VARIABLES
  now,             \* time.time()
  retry_times,     \* config.download.retry_times
  max_concurrent,  \* config.download.max_concurrent
  semaphore,       \* AsyncDownloader.semaphore: free slots
  pc,              \* position of each download() call
  attempt,         \* loop variable of the retry loop
  issued,          \* HTTP attempts issued by the call so far
  failed,          \* attempts of the call that raised
  slept,           \* seconds of back-off requested by the call so far
  wake,            \* earliest wake-up time of the call's current sleep
  last,            \* outcome of the call's most recent attempt
  result,          \* what the call returned or raised
  requests,        \* RateLimiter.requests
  lock,            \* RateLimiter.lock: whether it is held
  rlNow,           \* local `now` of the acquire() that sleeps
  granted,         \* times at which the acquire() calls returned
  blocked_until,   \* AntiBlockingMiddleware.blocked_until
  blocked_domains, \* AntiBlockingMiddleware.blocked_domains
  domain_delays,   \* AntiBlockingMiddleware.domain_delays
  callBlocked      \* whether the host of a call was blocked when it was called

VARIABLES
  task_queue,      \* Redis list crawler:tasks, head first
  result_queue,    \* Redis list crawler:results, head first
  visited,         \* Redis set crawler:visited_urls
  site,            \* what the server does with a fetch of each canonical URL
  pushed,          \* number of tasks pushed by producers so far
  is_running,      \* CrawlerWorker.is_running
  wpc,             \* position of each worker's run()
  task,            \* the task a worker popped
  stats,           \* CrawlerWorker.stats
  saved,           \* pages handed to Storage.save, in order
  handled,         \* tasks whose process_task call has ended, in order
  stop_requested   \* whether shutdown() has cleared the worker's flag

VARIABLES
  url_arg,         \* the URL handed to normalize_url / url_to_hash
  other,           \* a second URL, compared with the first
  canon,           \* what the calls on url_arg and other gave
  marked,          \* URLs passed to mark_visited since the last clear
  answer,          \* what the last is_visited call returned
  hashes,          \* md5-derived bit positions of each item
  bit_array,       \* BloomFilter.bit_array: positions set to 1
  filters,         \* ScalableBloomFilter.filters: bit array of each filter
  added,           \* items added to the BloomFilter since its last clear
  sadded,          \* items added to the ScalableBloomFilter since its last clear
  contained,       \* what the last contains call returned
  sent,            \* values pushed to each Redis list, in order
  received,        \* values popped from each Redis list, in order
  popped,          \* what the last pop_task / pop_result returned
  mw,              \* how the last process_response call ended
  task_obj         \* a Task (models/task_model.py)

VARIABLES
  master,          \* CrawlerMaster: is_running and stats
  drained,         \* result descriptors monitor_tasks has popped, in order
  seeded,          \* the last add_seed_urls call: its arguments and the seen-set
  files,           \* FileStorage: the file written under each id
  save_log,        \* how each Storage.save call ended, in order
  request_timestamps, \* AntiBlockingMiddleware.request_timestamps
  pre,             \* how the last process_request / process_exception call ended
  pm,              \* ProxyManager: proxies, current_index, bad_proxies
  pmw,             \* ProxyMiddleware: proxies, current_proxy_index, bad_proxies
  got              \* the get_proxy calls since the pool or the bad set last changed

VARIABLES
  app,             \* CrawlerApplication.run_worker: its workers and their run() loops
  batch,           \* a download_batch call: its downloads and what it returned
  rm               \* RetryMiddleware: retry_queue, retry_stats and the requests

qVars == <<task_queue, result_queue, visited>>
wkVars == <<is_running, wpc, task, stats>>
workerVars == <<qVars, site, pushed, wkVars, saved, handled, stop_requested>>

cfgVars == <<retry_times, max_concurrent>>
callVars == <<attempt, issued, failed, slept, last, result>>
dlVars == <<cfgVars, semaphore, pc, callVars, wake>>
rlVars == <<requests, lock, rlNow, granted>>
abVars == <<blocked_until, blocked_domains, domain_delays>>
pipeVars == <<now, dlVars, rlVars, abVars, callBlocked>>
urlVars == <<url_arg, other, canon, marked, answer>>
bloomVars == <<hashes, bit_array, filters, added, sadded, contained>>
queueVars == <<sent, received, popped>>
masterVars == <<master, drained, seeded>>
storeVars == <<files, save_log>>
preVars == <<request_timestamps, pre>>
proxyVars == <<pm, pmw, got>>
appVars == <<app, batch, rm>>
extVars == <<masterVars, storeVars, preVars, proxyVars, appVars>>
libVars == <<urlVars, bloomVars, queueVars, mw, task_obj, extVars>>
vars == <<pipeVars, workerVars, libVars>>

\* A Python dict: a function on its keys.
EmptyDict == [k \in {} |-> 0]
DictSet(d, key, v) ==
  [k \in DOMAIN d \cup {key} |-> IF k = key THEN v ELSE d[k]]
DictGet(d, key, default) == IF key \in DOMAIN d THEN d[key] ELSE default

RECURSIVE Pow2(_)
Pow2(k) == IF k = 0 THEN 1 ELSE 2 * Pow2(k - 1)

(***************************************************************************)
(* State after AsyncDownloader() / RateLimiter() construction.             *)
(***************************************************************************)
InitPipe(retries, slots) ==
  /\ now = 0
  /\ retry_times \in retries
  /\ max_concurrent \in slots
  /\ semaphore = max_concurrent
  /\ pc = [c \in Callers |-> "idle"]
  /\ attempt = [c \in Callers |-> 0]
  /\ issued = [c \in Callers |-> 0]
  /\ failed = [c \in Callers |-> 0]
  /\ slept = [c \in Callers |-> 0]
  /\ wake = [c \in Callers |-> 0]
  /\ last = [c \in Callers |-> NoOutcome]
  /\ result = [c \in Callers |-> NoOutcome]
  /\ requests = <<>>
  /\ lock = FALSE
  /\ rlNow = 0
  /\ granted = <<>>
  /\ blocked_until = EmptyDict
  /\ blocked_domains = {}
  /\ domain_delays = EmptyDict
  /\ callBlocked = [c \in Callers |-> FALSE]

\* The clock advances.
Tick ==
  /\ now < MaxTime
  /\ now' = now + 1
  /\ UNCHANGED <<libVars, workerVars, dlVars, rlVars, abVars, callBlocked>>

\* AntiBlockingMiddleware.process_request raises "temporarily blocked" for
\* this domain: `domain in self.blocked_until and time.time() < blocked_until[domain]`.
PreCheckRaises(domain) ==
  domain \in DOMAIN blocked_until /\ now < blocked_until[domain]

\* download(url) is called: the call waits at `async with self.semaphore`.
Call(c) ==
  /\ pc[c] = "idle"
  /\ pc' = [pc EXCEPT ![c] = "gate"]
  /\ callBlocked' = [callBlocked EXCEPT ![c] = PreCheckRaises(HostOf(c))]
  /\ UNCHANGED <<libVars, workerVars, now, cfgVars, semaphore, callVars, wake, rlVars, abVars>>

\* Faulty variant of SemAcquire: the gate lets a call in without a free slot.
SemAcquireNoWait(c) ==
  /\ pc[c] = "gate"
  /\ semaphore' = semaphore - 1
  /\ pc' = [pc EXCEPT ![c] = "rl_lock"]
  /\ UNCHANGED <<libVars, workerVars, now, cfgVars, callVars, wake, rlVars, abVars, callBlocked>>

\* async with self.semaphore: one slot is taken.
SemAcquire(c) ==
  /\ pc[c] = "gate"
  /\ semaphore > 0
  /\ semaphore' = semaphore - 1
  /\ pc' = [pc EXCEPT ![c] = "rl_lock"]
  /\ UNCHANGED <<libVars, workerVars, now, cfgVars, callVars, wake, rlVars, abVars, callBlocked>>

\* self.requests = [t for t in self.requests if now - t < self.time_window]
Prune(reqs, n) == SelectSeq(reqs, LAMBDA t : n - t < time_window)

\* The time acquire() appends for a caller that slept: its local `now`,
\* read before the sleep.
RecordedAfterSleep(before, current) == before

\* RateLimiter.acquire up to its first suspension: under the lock, prune,
\* then either sleep (lock held) or record `now` and return.
RateAcquire(c) ==
  /\ pc[c] = "rl_lock"
  /\ ~lock
  /\ LET pruned == Prune(requests, now)
         full == Len(pruned) >= max_requests
         wait_time == time_window - (now - pruned[1])
     IN IF full /\ wait_time > 0
        THEN /\ requests' = pruned
             /\ lock' = TRUE
             /\ rlNow' = now
             /\ wake' = [wake EXCEPT ![c] = now + wait_time]
             /\ pc' = [pc EXCEPT ![c] = "rl_sleep"]
             /\ UNCHANGED granted
        ELSE /\ requests' = Append(pruned, now)
             /\ granted' = Append(granted, now)
             /\ pc' = [pc EXCEPT ![c] = "delay"]
             /\ UNCHANGED <<lock, rlNow, wake>>
  /\ UNCHANGED <<libVars, workerVars, now, cfgVars, semaphore, callVars, abVars, callBlocked>>

\* Faulty variant of Unlock: the lock stays held after the sleep.
StayLocked(l) == l

\* `async with self.lock` is left: the lock is free again.
Unlock(l) == FALSE

\* RateLimiter.acquire after asyncio.sleep(wait_time): drop the oldest record
\* and append the `now` read before the sleep; release the lock.
RateWake(c) ==
  /\ pc[c] = "rl_sleep"
  /\ now >= wake[c]
  /\ requests' = Append(Tail(requests), RecordedAfterSleep(rlNow, now))
  /\ granted' = Append(granted, now)
  /\ lock' = Unlock(lock)
  /\ rlNow' = 0
  /\ wake' = [wake EXCEPT ![c] = 0]
  /\ pc' = [pc EXCEPT ![c] = "delay"]
  /\ UNCHANGED <<libVars, workerVars, now, cfgVars, semaphore, callVars, abVars, callBlocked>>

\* Faulty variant of Release: the slot is kept when the call ends.
KeepSlot(s) == s

\* The semaphore is released when the `async with` block is left.
Release(s) == s + 1

\* The passes of `for attempt in range(config.download.retry_times)`.
LoopPasses(n) == n

\* The random delay is over and the headers are prepared: the retry loop is
\* entered. range(retry_times) is empty for retry_times = 0, and the
\* function then falls off its end, returning None.
DelayDone(c) ==
  /\ pc[c] = "delay"
  /\ IF LoopPasses(retry_times) = 0
     THEN /\ pc' = [pc EXCEPT ![c] = "returned"]
          /\ result' = [result EXCEPT ![c] = NoneResult]
          /\ semaphore' = Release(semaphore)
     ELSE /\ pc' = [pc EXCEPT ![c] = "attempt"]
          /\ UNCHANGED <<result, semaphore>>
  /\ UNCHANGED <<libVars, workerVars, now, cfgVars, attempt, issued, failed, slept, last, wake,
                 rlVars, abVars, callBlocked>>

\* The response dict download() builds from an HTTP reply.
Response(c, r) ==
  [kind |-> "response", url_host |-> HostOf(c), status |-> r.status,
   content |-> r.content, headers |-> r.headers]

\* `if attempt == config.download.retry_times - 1`
IsLastAttempt(a) == a = retry_times - 1

\* Faulty variant of Backoff: the exponent is off by one.
BackoffFromTwo(a) == Pow2(a + 1)

\* asyncio.sleep(2 ** attempt)
Backoff(a) == Pow2(a)

\* Faulty variant of ReachesReturn: a reply outside 2xx raises, as with
\* raise_for_status.
ReachesReturnOn2xx(o) == o \in Replies /\ o.status \in 200..299

\* The body of the `try` reaches its `return` for every HTTP reply: there is
\* no status check and no raise_for_status.
ReachesReturn(o) == o \in Replies

\* One pass of the retry loop: session.get and response.read end with a
\* reply, which is returned whatever its status, or raise.
Attempt(c) ==
  /\ pc[c] = "attempt"
  /\ issued' = [issued EXCEPT ![c] = @ + 1]
  /\ \E o \in Errors \cup Replies :
       /\ last' = [last EXCEPT ![c] = o]
       /\ IF ReachesReturn(o)
          THEN /\ result' = [result EXCEPT ![c] = Response(c, o)]
               /\ pc' = [pc EXCEPT ![c] = "returned"]
               /\ semaphore' = Release(semaphore)
               /\ UNCHANGED <<failed, slept, wake>>
          ELSE /\ failed' = [failed EXCEPT ![c] = @ + 1]
               /\ IF IsLastAttempt(attempt[c])
                  THEN /\ result' = [result EXCEPT ![c] = o]
                       /\ pc' = [pc EXCEPT ![c] = "raised"]
                       /\ semaphore' = Release(semaphore)
                       /\ UNCHANGED <<slept, wake>>
                  ELSE /\ slept' = [slept EXCEPT ![c] = @ + Backoff(attempt[c])]
                       /\ wake' = [wake EXCEPT ![c] = now + Backoff(attempt[c])]
                       /\ pc' = [pc EXCEPT ![c] = "backoff"]
                       /\ UNCHANGED <<result, semaphore>>
  /\ UNCHANGED <<libVars, workerVars, now, cfgVars, attempt, rlVars, abVars, callBlocked>>

\* asyncio.sleep(2 ** attempt) is over: next pass of the loop.
BackoffDone(c) ==
  /\ pc[c] = "backoff"
  /\ now >= wake[c]
  /\ attempt' = [attempt EXCEPT ![c] = @ + 1]
  /\ wake' = [wake EXCEPT ![c] = 0]
  /\ pc' = [pc EXCEPT ![c] = "attempt"]
  /\ UNCHANGED <<libVars, workerVars, now, cfgVars, semaphore, issued, failed, slept, last, result,
                 rlVars, abVars, callBlocked>>

(***************************************************************************)
(* AntiBlockingMiddleware.  Nothing in the repository calls it: download() *)
(* and the worker never consult it.  Its methods are operations an         *)
(* application can run on the responses download() returns.                *)
(***************************************************************************)

\* random.randint(300, 1800), random.randint(60, 300), random.uniform(2.0, 5.0):
\* the ends of each range.
BlockMin == 300
BlockMax == 1800
PauseMin == 60
PauseMax == 300
DelayMin == 2
DelayMax == 5
DefaultDelay == 1
DelayCap == 10

BlockedStatuses == {403, 503, 999}
\* Bodies that, lower-cased, contain one of the blocked_indicators.
BodiesWithIndicator == {"access denied", "<html>access denied</html>", "you are blocked"}
\* Server header values that, lower-cased, contain cloudflare, distil or imperva.
ServersWithIndicator == {"cloudflare"}

\* str.lower() of a body, of a header name or of a header value.
LowerText(t) ==
  CASE t = "<html>Access Denied</html>" -> "<html>access denied</html>"
    [] t = "CloudFlare" -> "cloudflare"
    [] t = "Server" -> "server"
    [] OTHER -> t

\* AntiBlockingMiddleware._is_blocked_response
IsBlockedResponse(response) ==
  \/ response.status \in BlockedStatuses
  \/ LowerText(response.content) \in BodiesWithIndicator
  \/ LowerText(DictGet(response.headers, "server", "")) \in ServersWithIndicator

Min(a, b) == IF a <= b THEN a ELSE b

\* The exception process_response raises for a response, if any.
Raises(response) ==
  IF IsBlockedResponse(response) THEN "Blocked by"
  ELSE IF response.status = 429 THEN "Rate limited by"
  ELSE "nothing"

\* What process_response does to the block table for a response of a
\* domain.  Block-classified: _handle_blocking; status 429:
\* _handle_rate_limit; otherwise nothing.
HandleResponse(domain, response) ==
  IF IsBlockedResponse(response)
  THEN \E block_duration \in {BlockMin, BlockMax}, delay \in {DelayMin, DelayMax} :
         /\ blocked_until' = DictSet(blocked_until, domain, now + block_duration)
         /\ blocked_domains' = blocked_domains \cup {domain}
         /\ domain_delays' = DictSet(domain_delays, domain, delay)
  ELSE IF response.status = 429
  THEN \E pause_time \in {PauseMin, PauseMax} :
         /\ domain_delays' =
              DictSet(domain_delays, domain,
                      Min(DictGet(domain_delays, domain, DefaultDelay) * 2, DelayCap))
         /\ blocked_until' = DictSet(blocked_until, domain, now + pause_time)
         /\ UNCHANGED blocked_domains
  ELSE UNCHANGED abVars

\* process_response run by an application on the response a download()
\* call returned: it raises or passes the response on.
ProcessResponse(c) ==
  /\ pc[c] = "returned"
  /\ result[c].kind = "response"
  /\ HandleResponse(result[c].url_host, result[c])
  /\ pc' = [pc EXCEPT ![c] = IF Raises(result[c]) = "nothing" THEN "passed" ELSE "rejected"]
  /\ UNCHANGED <<libVars, workerVars, now, cfgVars, semaphore, callVars, wake, rlVars, callBlocked>>

\* Replies handed to the middleware on its own: by status, by body and by
\* Server header, the header name written as the server sent it.
MwReplies ==
  { [kind |-> "reply", status |-> 200, content |-> "page", headers |-> PlainHeaders],
    [kind |-> "reply", status |-> 404, content |-> "not found", headers |-> PlainHeaders],
    [kind |-> "reply", status |-> 403, content |-> "<html>Access Denied</html>",
     headers |-> PlainHeaders],
    [kind |-> "reply", status |-> 503, content |-> "page", headers |-> PlainHeaders],
    [kind |-> "reply", status |-> 200, content |-> "<html>Access Denied</html>",
     headers |-> PlainHeaders],
    [kind |-> "reply", status |-> 200, content |-> "page",
     headers |-> [n \in {"Server"} |-> "cloudflare"]],
    [kind |-> "reply", status |-> 200, content |-> "page",
     headers |-> [n \in {"server"} |-> "CloudFlare"]],
    [kind |-> "reply", status |-> 429, content |-> "slow down", headers |-> PlainHeaders],
    [kind |-> "reply", status |-> 429, content |-> "you are blocked",
     headers |-> PlainHeaders] }

\* The replies a host sends between pre-checks: a page, a 429, a block page.
PreReplies ==
  { r \in MwReplies :
      /\ r.headers = PlainHeaders
      /\ \/ r.status = 200 /\ r.content = "page"
         \/ r.status = 429 /\ r.content = "slow down"
         \/ r.status = 403 }

NoMw == [kind |-> "none"]

\* urlparse(url).netloc of the responses handed to the middleware.
MwHost == "a.test"

\* The response dict download() builds from a reply of a domain.
ResponseOf(domain, r) ==
  [kind |-> "response", url_host |-> domain, status |-> r.status,
   content |-> r.content, headers |-> r.headers]

\* await middleware.process_response(response) on the response to reply
\* r of a domain, its outcome kept.
process_response(domain, r) ==
  /\ HandleResponse(domain, ResponseOf(domain, r))
  /\ mw' = [kind |-> "done",
            raised |-> Raises(ResponseOf(domain, r)),
            response |-> ResponseOf(domain, r),
            domain |-> domain,
            at |-> now,
            delay_before |-> DictGet(domain_delays, domain, DefaultDelay),
            delay_after |-> DictGet(domain_delays', domain, 0),
            unchanged |-> (blocked_until' = blocked_until /\ domain_delays' = domain_delays)]
  /\ UNCHANGED <<urlVars, bloomVars, queueVars, task_obj, extVars>>
  /\ UNCHANGED <<workerVars, now, dlVars, rlVars, callBlocked>>

(***************************************************************************)
(* Worker loop: CrawlerWorker over the Redis queues (DistributedManager),  *)
(* the Redis seen-set (URLManager) and the storage sink.                   *)
(***************************************************************************)
NumWorkers == 2
MaxTasks == 2

Workers == 1..NumWorkers

\* URLs that tasks carry.
URLs == {"http://a.test/", "http://A.test/#top", "http://b.test/y"}

\* URLManager.normalize_url on these URLs: scheme and host lower-cased, the
\* fragment dropped.
NormalizeUrl(u) == IF u = "http://A.test/#top" THEN "http://a.test/" ELSE u

\* URLManager.url_to_hash: md5 of the canonical form (one hash per
\* canonical URL).
UrlToHash(u) == NormalizeUrl(u)

CanonicalURLs == {NormalizeUrl(u) : u \in URLs}

\* urlparse(url).netloc
Netloc(u) ==
  IF u = "http://b.test/y" THEN "b.test"
  ELSE IF u = "http://A.test/#top" THEN "A.test" ELSE "a.test"

\* HTMLParser.extract_links of the page the server holds at a URL: the seed
\* page links to /x and to http://b.test/y, resolved with urljoin.
ExtractLinks(u) ==
  IF NormalizeUrl(u) = "http://a.test/"
  THEN <<"http://a.test/x", "http://b.test/y">>
  ELSE <<>>

\* What download(url) ends with for a site: a response (200 with the page,
\* 403 with a block page) or an error raised.
FetchOutcomes ==
  { o \in Errors \cup Replies :
      IF o \in Errors THEN o.err = "timeout" ELSE o.status \in {200, 403} }

NoTask == [url |-> "", id |-> 0]

InitWorkers(sites) ==
  /\ task_queue = <<>>
  /\ result_queue = <<>>
  /\ visited = {}
  /\ site \in sites
  /\ pushed = 0
  /\ is_running = [w \in Workers |-> FALSE]
  /\ wpc = [w \in Workers |-> "new"]
  /\ task = [w \in Workers |-> NoTask]
  /\ stats = [w \in Workers |-> [processed |-> 0, success |-> 0, failed |-> 0]]
  /\ saved = <<>>
  /\ handled = <<>>
  /\ stop_requested = [w \in Workers |-> FALSE]

\* redis.lpush / redis.rpop
LPush(q, x) == <<x>> \o q
\* Faulty variant of RPopValue: the newest value.
LPopValue(q) == q[1]
RPopValue(q) == q[Len(q)]
\* Faulty variant of RPopRest: the popped value stays in the list.
RPopKeep(q) == q
RPopRest(q) == SubSeq(q, 1, Len(q) - 1)

\* DistributedManager.push_task by a producer (a seeder, a test, another
\* process): the task goes to the head of the list.
PushTask(u) ==
  /\ pushed < MaxTasks
  /\ pushed' = pushed + 1
  /\ task_queue' = LPush(task_queue, [url |-> u, id |-> pushed + 1])
  /\ UNCHANGED <<result_queue, visited, site, wkVars, saved, handled>>
  /\ UNCHANGED <<pipeVars, libVars, stop_requested>>

\* CrawlerWorker.run: self.is_running = True, then the loop.
RunStart(w) ==
  /\ wpc[w] = "new"
  /\ is_running' = [is_running EXCEPT ![w] = TRUE]
  /\ wpc' = [wpc EXCEPT ![w] = "loop"]
  /\ UNCHANGED <<qVars, site, pushed, task, stats, saved, handled>>
  /\ UNCHANGED <<pipeVars, libVars, stop_requested>>

\* `while self.is_running` is false: run() returns.
RunExit(w) ==
  /\ wpc[w] = "loop"
  /\ ~is_running[w]
  /\ wpc' = [wpc EXCEPT ![w] = "stopped"]
  /\ UNCHANGED <<qVars, site, pushed, is_running, task, stats, saved, handled>>
  /\ UNCHANGED <<pipeVars, libVars, stop_requested>>

\* One pass of the loop up to its first await: pop_task (rpop, oldest
\* first); with a task go on to process_task, without one sleep 1 s.
PopTask(w) ==
  /\ wpc[w] = "loop"
  /\ is_running[w]
  /\ IF Len(task_queue) > 0
     THEN /\ task' = [task EXCEPT ![w] = RPopValue(task_queue)]
          /\ task_queue' = RPopRest(task_queue)
          /\ wpc' = [wpc EXCEPT ![w] = "process"]
     ELSE /\ wpc' = [wpc EXCEPT ![w] = "idle"]
          /\ UNCHANGED <<task, task_queue>>
  /\ UNCHANGED <<result_queue, visited, site, pushed, is_running, stats,
                 saved, handled>>
  /\ UNCHANGED <<pipeVars, libVars, stop_requested>>

\* asyncio.sleep(1) with no task is over.
IdleWake(w) ==
  /\ wpc[w] = "idle"
  /\ wpc' = [wpc EXCEPT ![w] = "loop"]
  /\ UNCHANGED <<qVars, site, pushed, is_running, task, stats, saved, handled>>
  /\ UNCHANGED <<pipeVars, libVars, stop_requested>>

\* CrawlerApplication.shutdown: worker.is_running = False.
Shutdown(w) ==
  /\ is_running' = [is_running EXCEPT ![w] = FALSE]
  /\ stop_requested' = [stop_requested EXCEPT ![w] = TRUE]
  /\ UNCHANGED <<qVars, site, pushed, wpc, task, stats, saved, handled>>
  /\ UNCHANGED <<pipeVars, libVars>>

\* URLManager.is_visited, awaited: membership of the fingerprint.
IsVisited(u) == UrlToHash(u) \in visited

\* Variant of IsVisitedNotAwaited: the call is awaited and gives the answer
\* of the seen-set.
IsVisitedAwaited(u) == IsVisited(u)

\* `self.url_manager.is_visited(url)` as process_task writes it, without
\* await: is_visited is `async def`, so the call builds a coroutine object
\* and runs nothing; a coroutine object is truthy whatever the seen-set holds.
IsVisitedNotAwaited(u) == TRUE

\* `self.url_manager.mark_visited(url)` without await: the coroutine is
\* never run, the seen-set is left as it is.
MarkVisitedNotAwaited(seen, u) == seen

\* The result descriptors process_task pushes.
SuccessResult(w, t) ==
  [task_id |-> t.id, url |-> t.url, success |-> TRUE, error |-> "", worker_id |-> w]
FailureResult(w, t, e) ==
  [task_id |-> t.id, url |-> t.url, success |-> FALSE, error |-> e, worker_id |-> w]

\* The link tasks pushed after a save: one per link that the unawaited
\* is_visited call does not report visited.
RECURSIVE PushLinks(_, _, _)
PushLinks(q, links, parent) ==
  IF links = <<>> THEN q
  ELSE PushLinks(
         IF ~IsVisitedNotAwaited(Head(links))
         THEN LPush(q, [url |-> Head(links), id |-> 0, priority |-> 5,
                        parent_url |-> parent])
         ELSE q,
         Tail(links), parent)

\* process_task(task), then stats['processed'] += 1 in run().
\* The visited check comes first and returns when its condition is truthy;
\* past it: download, status check, parse, save, mark_visited, link tasks
\* and the success result, any exception giving the failure result, also
\* one raised after the save: by extract_links or a push_task ("links"), or
\* by the push of the success result, after stats['success'] += 1 ("result").
ProcessTask(w) ==
  /\ wpc[w] = "process"
  /\ LET t == task[w]
         url == t.url
         o == site[NormalizeUrl(url)]
     IN IF IsVisitedNotAwaited(url)
        THEN UNCHANGED <<qVars, saved>>
             /\ stats' = [stats EXCEPT ![w].processed = @ + 1]
        ELSE \E parse_ok \in BOOLEAN, save_ok \in BOOLEAN, after \in {"ok", "links", "result"} :
               IF o \in Errors
               THEN /\ result_queue' = LPush(result_queue, FailureResult(w, t, o.err))
                    /\ stats' = [stats EXCEPT ![w].failed = @ + 1,
                                              ![w].processed = @ + 1]
                    /\ UNCHANGED <<task_queue, visited, saved>>
               ELSE IF o.status # 200
               THEN /\ result_queue' = LPush(result_queue, FailureResult(w, t, "HTTP"))
                    /\ stats' = [stats EXCEPT ![w].failed = @ + 1,
                                              ![w].processed = @ + 1]
                    /\ UNCHANGED <<task_queue, visited, saved>>
               ELSE IF ~parse_ok
               THEN /\ result_queue' = LPush(result_queue, FailureResult(w, t, "parse"))
                    /\ stats' = [stats EXCEPT ![w].failed = @ + 1,
                                              ![w].processed = @ + 1]
                    /\ UNCHANGED <<task_queue, visited, saved>>
               ELSE IF ~save_ok
               THEN /\ result_queue' = LPush(result_queue, FailureResult(w, t, "storage"))
                    /\ stats' = [stats EXCEPT ![w].failed = @ + 1,
                                              ![w].processed = @ + 1]
                    /\ UNCHANGED <<task_queue, visited, saved>>
               ELSE /\ saved' = Append(saved, [url |-> url, status |-> o.status,
                                               worker_id |-> w])
                    /\ visited' = MarkVisitedNotAwaited(visited, url)
                    /\ task_queue' = IF after = "links" THEN task_queue
                                     ELSE PushLinks(task_queue, ExtractLinks(url), url)
                    /\ result_queue' =
                         LPush(result_queue,
                               IF after = "ok" THEN SuccessResult(w, t)
                               ELSE FailureResult(w, t, after))
                    /\ stats' = [stats EXCEPT
                                   ![w].success = IF after = "links" THEN @ ELSE @ + 1,
                                   ![w].failed = IF after = "ok" THEN @ ELSE @ + 1,
                                   ![w].processed = @ + 1]
  /\ handled' = Append(handled, [task |-> task[w], worker |-> w])
  /\ task' = [task EXCEPT ![w] = NoTask]
  /\ wpc' = [wpc EXCEPT ![w] = "loop"]
  /\ UNCHANGED <<site, pushed, is_running>>
  /\ UNCHANGED <<pipeVars, libVars, stop_requested>>

(***************************************************************************)
(* URLManager: canonical form, fingerprint and the exact seen-set.         *)
(* A URL string is a sequence of tokens: words ("http", "a", "test") and   *)
(* the delimiters of URL syntax, each one token.                           *)
(***************************************************************************)
LetterWords ==
  {"http", "HTTP", "ftp", "www", "WWW", "a", "A", "b", "test", "TEST", "x", "z", "frag"}
Words == LetterWords \cup {"1", "2"}
\* Characters urlsplit accepts in a scheme: letters, digits, "+", "-", ".".
SchemeTokens == Words \cup {"."}

\* str.lower() and str.upper(), token by token.
Lower(t) ==
  CASE t = "HTTP" -> "http" [] t = "WWW" -> "www" [] t = "A" -> "a"
    [] t = "TEST" -> "test" [] OTHER -> t
Upper(t) ==
  CASE t = "http" -> "HTTP" [] t = "www" -> "WWW" [] t = "a" -> "A"
    [] t = "test" -> "TEST" [] OTHER -> t
LowerAll(s) == [i \in 1..Len(s) |-> Lower(s[i])]
UpperAll(s) == [i \in 1..Len(s) |-> Upper(s[i])]

\* The value of F at e, with e worked out once.
Bind(e, F(_)) == CHOOSE r \in {F(x) : x \in {e}} : TRUE

\* str.find from a position: first index >= from of a token in toks, else 0.
Find(s, toks, from) ==
  IF \E i \in from..Len(s) : s[i] \in toks
  THEN CHOOSE i \in from..Len(s) :
         s[i] \in toks /\ \A j \in from..(i - 1) : s[j] \notin toks
  ELSE 0

\* s[i:] and s[:i] of Python, 1-based here.
From(s, i) == SubSeq(s, i, Len(s))
Upto(s, i) == SubSeq(s, 1, IF i > Len(s) THEN Len(s) ELSE i)

\* urlsplit, the scheme: the text before the first ":" when it starts with
\* a letter and holds scheme characters only, lower-cased.
SplitScheme(s) ==
  Bind(Find(s, {":"}, 1), LAMBDA i :
    IF i > 1 /\ s[1] \in LetterWords /\ \A j \in 1..(i - 1) : s[j] \in SchemeTokens
    THEN [scheme |-> LowerAll(Upto(s, i - 1)), rest |-> From(s, i + 1)]
    ELSE [scheme |-> <<>>, rest |-> s])

\* urlsplit, the netloc: after a leading "//", up to the first of "/?#".
SplitNetloc(s) ==
  IF Len(s) >= 2 /\ s[1] = "/" /\ s[2] = "/"
  THEN Bind(Find(s, {"/", "?", "#"}, 3), LAMBDA k :
         IF k = 0 THEN [netloc |-> From(s, 3), rest |-> <<>>]
         ELSE [netloc |-> SubSeq(s, 3, k - 1), rest |-> From(s, k)])
  ELSE [netloc |-> <<>>, rest |-> s]

\* str.split(tok, 1): the text before and after the first tok.
SplitAt(s, tok) ==
  Bind(Find(s, {tok}, 1), LAMBDA k :
    IF k = 0 THEN [head |-> s, tail |-> <<>>]
    ELSE [head |-> Upto(s, k - 1), tail |-> From(s, k + 1)])

\* urllib.parse.urlsplit / urlparse (no ";" parameters occur).  raises is
\* the ValueError "Invalid IPv6 URL" for an unbalanced bracket in netloc.
urlparse(s) ==
  Bind(SplitScheme(s), LAMBDA a :
    Bind(SplitNetloc(a.rest), LAMBDA b :
      Bind(SplitAt(b.rest, "#"), LAMBDA c :
        Bind(SplitAt(c.head, "?"), LAMBDA d :
          [raises |-> (\E k \in 1..Len(b.netloc) : b.netloc[k] = "[")
                        # (\E k \in 1..Len(b.netloc) : b.netloc[k] = "]"),
           scheme |-> a.scheme, netloc |-> b.netloc, path |-> d.head,
           query |-> d.tail, fragment |-> c.tail]))))

\* Schemes of urllib.parse.uses_netloc that occur here.
uses_netloc == {<<"http">>, <<"https">>, <<"ftp">>}

\* urllib.parse.urlunparse with empty params.
urlunparse(scheme, netloc, path, query, fragment) ==
  (IF scheme # <<>> THEN scheme \o <<":">> ELSE <<>>)
  \o (IF netloc # <<>> \/ (scheme \in uses_netloc /\ Upto(path, 2) # <<"/", "/">>)
      THEN <<"/", "/">> \o netloc
           \o (IF path # <<>> /\ path[1] # "/" THEN <<"/">> ELSE <<>>) \o path
      ELSE path)
  \o (IF query # <<>> THEN <<"?">> \o query ELSE <<>>)
  \o (IF fragment # <<>> THEN <<"#">> \o fragment ELSE <<>>)

\* re.sub(r'/+', '/', path)
RECURSIVE CollapseSlashes(_)
CollapseSlashes(p) ==
  IF Len(p) <= 1 THEN p
  ELSE Bind(Tail(p), LAMBDA t :
         IF p[1] = "/" /\ t[1] = "/" THEN CollapseSlashes(t)
         ELSE <<p[1]>> \o CollapseSlashes(t))

\* str.split(sep): the fields between the separators.
RECURSIVE Split(_, _)
Split(s, sep) ==
  Bind(SplitAt(s, sep), LAMBDA f :
    IF Len(f.head) = Len(s) THEN <<s>> ELSE <<f.head>> \o Split(f.tail, sep))

\* urllib.parse.unquote and quote_plus, token by token.
Unquote(t) == CASE t = "%7E" -> "~" [] t = "%2F" -> "/" [] OTHER -> t
Quote(t) == CASE t = "/" -> "%2F" [] t = ":" -> "%3A" [] OTHER -> t
UnquoteAll(s) == [i \in 1..Len(s) |-> Unquote(s[i])]
QuoteAll(s) == [i \in 1..Len(s) |-> Quote(s[i])]

\* One field of a query: name and value around the first "=", unquoted; a
\* field without "=" has a blank value (keep_blank_values=True).
NameValue(f) ==
  Bind(SplitAt(f, "="), LAMBDA nv : <<UnquoteAll(nv.head), UnquoteAll(nv.tail)>>)

\* parse_qsl(query, keep_blank_values=True): the (name, value) pairs in
\* order; empty fields are skipped.
parse_qsl(query) ==
  Bind(SelectSeq(Split(query, "&"), LAMBDA f : f # <<>>), LAMBDA fields :
    [i \in 1..Len(fields) |-> NameValue(fields[i])])

\* Order of Python strings, by code point of the tokens' characters.
Rank(t) ==
  CASE t = "1" -> 1 [] t = "2" -> 2 [] t = "A" -> 3 [] t = "a" -> 4
    [] t = "b" -> 5 [] t = "x" -> 6 [] t = "z" -> 7 [] t = "~" -> 8 [] OTHER -> 0
StrLeq(s, t) ==
  \/ /\ Len(s) <= Len(t)
     /\ \A i \in 1..Len(s) : s[i] = t[i]
  \/ \E i \in 1..Len(s) :
       /\ i <= Len(t)
       /\ Rank(s[i]) < Rank(t[i])
       /\ \A j \in 1..(i - 1) : s[j] = t[j]

\* sorted(...) of the distinct names.
RECURSIVE Sorted(_)
Sorted(S) ==
  IF S = {} THEN <<>>
  ELSE Bind(CHOOSE k \in S : \A o \in S : StrLeq(k, o), LAMBDA m :
         Bind(S \ {m}, LAMBDA rest : <<m>> \o Sorted(rest)))

\* "&".join(fields)
RECURSIVE JoinAmp(_)
JoinAmp(fs) ==
  IF fs = <<>> THEN <<>>
  ELSE IF Len(fs) = 1 THEN fs[1]
  ELSE Bind(Tail(fs), LAMBDA rest : fs[1] \o <<"&">> \o JoinAmp(rest))

\* The fields name=value of one name, its values in their order of
\* appearance (doseq=True).
FieldsOfName(name, pairs) ==
  Bind(SelectSeq(pairs, LAMBDA p : p[1] = name), LAMBDA mine :
    [i \in 1..Len(mine) |-> QuoteAll(mine[i][1]) \o <<"=">> \o QuoteAll(mine[i][2])])

\* urlencode(sorted(parse_qs(query).items()), doseq=True): the names in
\* sorted order.
SortedQuery(query) ==
  Bind(parse_qsl(query), LAMBDA pairs :
    Bind(Sorted({pairs[i][1] : i \in 1..Len(pairs)}), LAMBDA names :
      JoinAmp([n \in 1..Len(names) |-> JoinAmp(FieldsOfName(names[n], pairs))])))

\* What a call that raised gives.
Raised == <<"ValueError">>

\* The path as normalize_url rebuilds it: "/" when empty, runs of "/"
\* collapsed, a trailing "/" dropped unless the path is "/".
NormalPath(path) ==
  IF path = <<>> THEN <<"/">>
  ELSE Bind(CollapseSlashes(path), LAMBDA collapsed :
         IF collapsed # <<"/">> /\ collapsed[Len(collapsed)] = "/"
         THEN Upto(collapsed, Len(collapsed) - 1)
         ELSE collapsed)

\* The netloc as normalize_url rebuilds it: lower-cased, one leading
\* "www." removed.
NormalNetloc(netloc) ==
  Bind(LowerAll(netloc), LAMBDA lowered :
    IF Upto(lowered, 2) = <<"www", ".">> THEN From(lowered, 3) ELSE lowered)

\* URLManager.normalize_url(url) with keep_fragment=False.
normalize_url(u) ==
  Bind(urlparse(u), LAMBDA parsed :
    IF parsed.raises THEN Raised
    ELSE urlunparse(LowerAll(parsed.scheme),
                    NormalNetloc(parsed.netloc),
                    NormalPath(parsed.path),
                    IF parsed.query # <<>> THEN SortedQuery(parsed.query) ELSE <<>>,
                    <<>>))

\* Faulty variant of url_to_hash: md5 of the URL as given.
url_to_hash_raw(u) == <<"md5">> \o u

\* URLManager.url_to_hash: md5 of the canonical form; distinct canonical
\* forms have distinct digests.
url_to_hash(u) ==
  Bind(normalize_url(u), LAMBDA normalized :
    IF normalized = Raised THEN Raised ELSE <<"md5">> \o normalized)

\* The URLs handed to normalize_url: scheme, authority, path, query and
\* fragment drawn from small sets and written out as a string.
InSchemes == {<<>>, <<"http">>, <<"HTTP">>, <<"ftp">>}
InAuthorities ==
  { <<>>,
    <<"/", "/">>,
    <<"/", "/", "a", ".", "test">>,
    <<"/", "/", "A", ".", "test">>,
    <<"/", "/", "www", ".", "a", ".", "test">>,
    <<"/", "/", "www", ".", "www", ".", "a", ".", "test">>,
    <<"/", "/", "[", "a">> }
InPaths == {<<>>, <<"/">>, <<"/", "x">>, <<"/", "a", "/", "/", "b", "/">>}
InQueries ==
  { <<>>,
    <<"z", "=", "1", "&", "a", "=", "2">>,
    <<"a", "=", "2", "&", "a", "=", "1">>,
    <<"a", "=", "%7E", "&", "&", "b">> }
InFragments == {<<>>, <<"frag">>}
UrlParts ==
  [scheme : InSchemes, authority : InAuthorities, path : InPaths,
   query : InQueries, fragment : InFragments]
MakeUrl(c) ==
  (IF c.scheme # <<>> THEN c.scheme \o <<":">> ELSE <<>>)
  \o c.authority \o c.path
  \o (IF c.query # <<>> THEN <<"?">> \o c.query ELSE <<>>)
  \o (IF c.fragment # <<>> THEN <<"#">> \o c.fragment ELSE <<>>)

\* A URL written differently: another case of the scheme or of the host, one
\* more leading "www.", each slash of a path that follows an authority
\* doubled, the query parameters in the opposite order, another fragment.
RECURSIVE DoubleSlashes(_)
DoubleSlashes(p) ==
  IF p = <<>> THEN <<>>
  ELSE Bind(Tail(p), LAMBDA t :
         (IF p[1] = "/" THEN <<"/", "/">> ELSE <<p[1]>>) \o DoubleSlashes(t))
Reverse(s) == [i \in 1..Len(s) |-> s[Len(s) + 1 - i]]
Rewritings(c) ==
  { [c EXCEPT !.scheme = UpperAll(@)],
    [c EXCEPT !.authority = UpperAll(@)],
    [c EXCEPT !.authority = IF Len(@) > 2 THEN <<"/", "/", "www", ".">> \o From(@, 3) ELSE @],
    [c EXCEPT !.path = IF c.authority = <<>> THEN @ ELSE DoubleSlashes(@)],
    [c EXCEPT !.query = JoinAmp(Reverse(Split(@, "&")))],
    [c EXCEPT !.fragment = IF @ = <<>> THEN <<"top">> ELSE <<>>] }

NoCanon == [op |-> "none", out |-> <<>>, again |-> <<>>, other_out |-> <<>>]

InitUrl(parts) ==
  \E c \in parts :
    /\ url_arg = MakeUrl(c)
    /\ other \in {MakeUrl(r) : r \in Rewritings(c)}
    /\ canon = NoCanon

\* normalize_url(url_arg), and normalize_url of what it returned.
NormalizeUrlCall ==
  /\ \E out \in {normalize_url(url_arg)} :
       canon' = [op |-> "normalize_url",
                 out |-> out,
                 again |-> IF out = Raised THEN Raised ELSE normalize_url(out),
                 other_out |-> <<>>]
  /\ UNCHANGED <<url_arg, other, marked, answer>>
  /\ UNCHANGED <<pipeVars, workerVars, bloomVars, queueVars, mw, task_obj, extVars>>

\* url_to_hash(url_arg) and url_to_hash(other).
UrlToHashCall ==
  /\ canon' = [op |-> "url_to_hash",
               out |-> url_to_hash(url_arg),
               again |-> <<>>,
               other_out |-> url_to_hash(other)]
  /\ UNCHANGED <<url_arg, other, marked, answer>>
  /\ UNCHANGED <<pipeVars, workerVars, bloomVars, queueVars, mw, task_obj, extVars>>

(***************************************************************************)
(* URLManager seen-set: the Redis set crawler:visited_urls, here with      *)
(* every call awaited.                                                     *)
(***************************************************************************)
MaxMarked == 2

\* URLs passed to mark_visited and is_visited: the second and the third
\* have the canonical form of the first.
SeenURLs ==
  { <<"http", ":", "/", "/", "a", ".", "test", "/">>,
    <<"HTTP", ":", "/", "/", "www", ".", "A", ".", "test", "#", "frag">>,
    <<"http", ":", "/", "/", "a", ".", "test", "/", "/">>,
    <<"http", ":", "/", "/", "a", ".", "test", "/", "x">>,
    <<"http", ":", "/", "/", "b", ".", "test", "/">> }

NoAnswer == [kind |-> "none"]

InitSeen ==
  /\ marked = {}
  /\ answer = NoAnswer

\* redis.sadd(visited_urls_key, url_hash)
SAdd(set, u) == set \cup {url_to_hash(u)}

\* URLManager.mark_visited(url)
mark_visited(u) ==
  /\ Cardinality(marked) < MaxMarked
  /\ visited' = SAdd(visited, u)
  /\ marked' = marked \cup {u}
  /\ UNCHANGED <<url_arg, other, canon, answer>>
  /\ UNCHANGED <<task_queue, result_queue, site, pushed, wkVars, saved, handled,
                 stop_requested>>
  /\ UNCHANGED <<pipeVars, bloomVars, queueVars, mw, task_obj, extVars>>

\* URLManager.is_visited(url): redis.sismember on the fingerprint.
is_visited(u) ==
  /\ answer' = [kind |-> "bool", url |-> u, value |-> url_to_hash(u) \in visited,
                after |-> marked]
  /\ UNCHANGED <<url_arg, other, canon, marked>>
  /\ UNCHANGED <<pipeVars, workerVars, bloomVars, queueVars, mw, task_obj, extVars>>

\* URLManager.clear_visited_urls: redis.delete(visited_urls_key)
clear_visited_urls ==
  /\ visited' = {}
  /\ marked' = {}
  /\ UNCHANGED <<url_arg, other, canon, answer>>
  /\ UNCHANGED <<task_queue, result_queue, site, pushed, wkVars, saved, handled,
                 stop_requested>>
  /\ UNCHANGED <<pipeVars, bloomVars, queueVars, mw, task_obj, extVars>>

(***************************************************************************)
(* BloomFilter and ScalableBloomFilter (utils/bloom_filter.py), memory     *)
(* backend.  md5 is some fixed function: the bit positions it gives each   *)
(* item are chosen when the filter is built and never change.              *)
(***************************************************************************)
num_bits == 3
num_hashes == 2
Items == {"u1", "u2"}
HashFunctions == [Items -> [0..(num_hashes - 1) -> 0..(num_bits - 1)]]

NoContains == [kind |-> "none"]

\* BloomFilter.__init__ (bit_array.setall(0)) and
\* ScalableBloomFilter.__init__ (one filter).
InitBloom(hs) ==
  /\ hashes \in hs
  /\ bit_array = {}
  /\ filters = <<{}>>
  /\ added = {}
  /\ sadded = {}
  /\ contained = NoContains

\* BloomFilter._hash_functions(item): the positions
\* int(md5(item_i), 16) % num_bits for i in range(num_hashes).
hash_functions(item) == {hashes[item][i] : i \in 0..(num_hashes - 1)}

\* Only the position of the first hash is set.
SetFirstBit(bits, item) == bits \cup {hashes[item][0]}

\* BloomFilter.add on a bit array: every position of the item is set to 1.
SetBits(bits, item) == bits \cup hash_functions(item)

\* BloomFilter.contains on a bit array: all(bit_array[pos] for pos in positions).
AllBits(bits, item) == \A pos \in hash_functions(item) : pos \in bits

\* BloomFilter.add(item)
BloomAdd(item) ==
  /\ bit_array' = SetBits(bit_array, item)
  /\ added' = added \cup {item}
  /\ UNCHANGED <<hashes, filters, sadded, contained>>
  /\ UNCHANGED <<pipeVars, workerVars, urlVars, queueVars, mw, task_obj, extVars>>

\* BloomFilter.add_many(items): add for each item in turn.
BloomAddMany(items) ==
  /\ bit_array' = SetBits(SetBits(bit_array, items[1]), items[2])
  /\ added' = added \cup {items[1], items[2]}
  /\ UNCHANGED <<hashes, filters, sadded, contained>>
  /\ UNCHANGED <<pipeVars, workerVars, urlVars, queueVars, mw, task_obj, extVars>>

\* BloomFilter.contains(item)
BloomContains(item) ==
  /\ contained' = [kind |-> "BloomFilter", item |-> item,
                   value |-> AllBits(bit_array, item), after |-> added]
  /\ UNCHANGED <<hashes, bit_array, filters, added, sadded>>
  /\ UNCHANGED <<pipeVars, workerVars, urlVars, queueVars, mw, task_obj, extVars>>

\* BloomFilter.clear
BloomClear ==
  /\ bit_array' = {}
  /\ added' = {}
  /\ UNCHANGED <<hashes, filters, sadded, contained>>
  /\ UNCHANGED <<pipeVars, workerVars, urlVars, queueVars, mw, task_obj, extVars>>

\* ScalableBloomFilter.add(item): add to every filter of the list.
ScalableAdd(item) ==
  /\ filters' = [i \in DOMAIN filters |-> SetBits(filters[i], item)]
  /\ sadded' = sadded \cup {item}
  /\ UNCHANGED <<hashes, bit_array, added, contained>>
  /\ UNCHANGED <<pipeVars, workerVars, urlVars, queueVars, mw, task_obj, extVars>>

\* ScalableBloomFilter.contains(item): True as soon as one filter contains it.
ScalableContains(item) ==
  /\ contained' = [kind |-> "ScalableBloomFilter", item |-> item,
                   value |-> \E i \in DOMAIN filters : AllBits(filters[i], item),
                   after |-> sadded]
  /\ UNCHANGED <<hashes, bit_array, filters, added, sadded>>
  /\ UNCHANGED <<pipeVars, workerVars, urlVars, queueVars, mw, task_obj, extVars>>

\* ScalableBloomFilter.clear: every filter cleared, the list emptied, one
\* new filter added.
ScalableClear ==
  /\ filters' = <<{}>>
  /\ sadded' = {}
  /\ UNCHANGED <<hashes, bit_array, added, contained>>
  /\ UNCHANGED <<pipeVars, workerVars, urlVars, queueVars, mw, task_obj, extVars>>

(***************************************************************************)
(* DistributedManager: the two Redis lists, used by any processes.        *)
(***************************************************************************)
MaxPushes == 3
\* Task and result dicts.
QueueItems == {"d1", "d2"}

\* json.dumps / json.loads of a dict of strings and numbers.
JsonDumps(x) == [json |-> x]
JsonLoads(j) == j.json

NoPop == [kind |-> "none"]

InitQueues ==
  /\ sent = [task |-> <<>>, result |-> <<>>]
  /\ received = [task |-> <<>>, result |-> <<>>]
  /\ popped = NoPop

\* DistributedManager.push_task(task)
push_task(x) ==
  /\ Len(sent.task) < MaxPushes
  /\ task_queue' = LPush(task_queue, JsonDumps(x))
  /\ sent' = [sent EXCEPT !.task = Append(@, x)]
  /\ UNCHANGED <<received, popped>>
  /\ UNCHANGED <<result_queue, visited, site, pushed, wkVars, saved, handled,
                 stop_requested>>
  /\ UNCHANGED <<pipeVars, urlVars, bloomVars, mw, task_obj, extVars>>

\* DistributedManager.pop_task(): rpop, None when the list is empty.
pop_task ==
  /\ IF Len(task_queue) > 0
     THEN /\ popped' = [kind |-> "task", none |-> FALSE, left |-> Len(task_queue),
                        value |-> JsonLoads(RPopValue(task_queue))]
          /\ received' = [received EXCEPT !.task = Append(@, JsonLoads(RPopValue(task_queue)))]
          /\ task_queue' = RPopRest(task_queue)
     ELSE /\ popped' = [kind |-> "task", none |-> TRUE, left |-> 0, value |-> ""]
          /\ UNCHANGED <<received, task_queue>>
  /\ UNCHANGED sent
  /\ UNCHANGED <<result_queue, visited, site, pushed, wkVars, saved, handled,
                 stop_requested>>
  /\ UNCHANGED <<pipeVars, urlVars, bloomVars, mw, task_obj, extVars>>

\* DistributedManager.push_result(result)
push_result(x) ==
  /\ Len(sent.result) < MaxPushes
  /\ result_queue' = LPush(result_queue, JsonDumps(x))
  /\ sent' = [sent EXCEPT !.result = Append(@, x)]
  /\ UNCHANGED <<received, popped>>
  /\ UNCHANGED <<task_queue, visited, site, pushed, wkVars, saved, handled,
                 stop_requested>>
  /\ UNCHANGED <<pipeVars, urlVars, bloomVars, mw, task_obj, extVars>>

\* DistributedManager.pop_result(): rpop, None when the list is empty.
pop_result ==
  /\ IF Len(result_queue) > 0
     THEN /\ popped' = [kind |-> "result", none |-> FALSE, left |-> Len(result_queue),
                        value |-> JsonLoads(RPopValue(result_queue))]
          /\ received' = [received EXCEPT
                            !.result = Append(@, JsonLoads(RPopValue(result_queue)))]
          /\ result_queue' = RPopRest(result_queue)
     ELSE /\ popped' = [kind |-> "result", none |-> TRUE, left |-> 0, value |-> ""]
          /\ UNCHANGED <<received, result_queue>>
  /\ UNCHANGED sent
  /\ UNCHANGED <<task_queue, visited, site, pushed, wkVars, saved, handled,
                 stop_requested>>
  /\ UNCHANGED <<pipeVars, urlVars, bloomVars, mw, task_obj, extVars>>

(***************************************************************************)
(* Task (models/task_model.py): the methods that move a task through its   *)
(* lifecycle, on a Task with the defaults the dataclass declares.          *)
(***************************************************************************)
max_attempts == 3
\* mark_started calls made on one Task in the model.
MaxStarted == 5
WorkerIds == {"worker-1", "worker-2"}
TaskErrors == {"timeout", "HTTP 500"}
None == "None"

\* Task(url=...): status PENDING, retry_count 0, attempt_count 0.
InitTask ==
  task_obj = [status |-> "pending", retry_count |-> 0, attempt_count |-> 0,
              worker_id |-> None, error |-> None, result |-> None]

\* Task.mark_started(worker_id)
mark_started(worker_id) ==
  /\ task_obj.attempt_count < MaxStarted
  /\ task_obj' = [task_obj EXCEPT !.status = "processing",
                                  !.worker_id = worker_id,
                                  !.attempt_count = @ + 1]
  /\ UNCHANGED <<pipeVars, workerVars, urlVars, bloomVars, queueVars, mw, extVars>>

\* Task.mark_completed(result)
mark_completed ==
  /\ task_obj' = [task_obj EXCEPT !.status = "completed",
                                  !.result = "page",
                                  !.error = None]
  /\ UNCHANGED <<pipeVars, workerVars, urlVars, bloomVars, queueVars, mw, extVars>>

\* Task.mark_failed(error)
mark_failed(error) ==
  /\ task_obj' = [task_obj EXCEPT !.status = "failed", !.error = error]
  /\ UNCHANGED <<pipeVars, workerVars, urlVars, bloomVars, queueVars, mw, extVars>>

\* Task.can_retry()
can_retry ==
  /\ task_obj.status = "failed"
  /\ task_obj.retry_count < max_attempts
  /\ task_obj.attempt_count < max_attempts

\* Task.prepare_for_retry(): nothing happens unless can_retry().
prepare_for_retry ==
  /\ IF can_retry
     THEN task_obj' = [task_obj EXCEPT !.status = "retrying",
                                       !.retry_count = @ + 1,
                                       !.worker_id = None,
                                       !.error = None]
     ELSE UNCHANGED task_obj
  /\ UNCHANGED <<pipeVars, workerVars, urlVars, bloomVars, queueVars, mw, extVars>>

(***************************************************************************)
(* CrawlerMaster: seed injection (add_seed_urls, run) and result drain     *)
(* (monitor_tasks) over the Redis lists and the seen-set.                  *)
(***************************************************************************)
MaxResults == 3
MaxQueued == 3
DefaultPriority == 10

\* Seed URLs and the lists of them handed to add_seed_urls / run.
SeedURLs ==
  { <<"http", ":", "/", "/", "a", ".", "test", "/">>,
    <<"http", ":", "/", "/", "b", ".", "test", "/">> }
SeedLists ==
  {<<u>> : u \in SeedURLs} \cup {s \in [1..2 -> SeedURLs] : s[1] # s[2]}
Priorities == {5, DefaultPriority}

NoSeeded == [kind |-> "none"]

\* CrawlerMaster.__init__
InitMaster ==
  /\ master = [is_running |-> FALSE, completed_tasks |-> 0, failed_tasks |-> 0,
               queue_size |-> 0]
  /\ drained = <<>>
  /\ seeded = NoSeeded

\* Everything the master leaves alone.
masterFrame ==
  <<pipeVars, urlVars, bloomVars, queueVars, mw, task_obj, storeVars, preVars,
    proxyVars, appVars, site, pushed, wkVars, saved, handled, stop_requested>>

\* The task add_seed_urls pushes for a seed.
SeedTask(u, priority) ==
  [url |-> u, priority |-> priority, metadata |-> [type |-> "seed"]]

\* The loop of add_seed_urls: `if not self.url_manager.is_visited(url)`
\* without await, then push_task.
RECURSIVE PushSeeds(_, _, _)
PushSeeds(q, urls, priority) ==
  IF urls = <<>> THEN q
  ELSE PushSeeds(
         IF ~IsVisitedNotAwaited(Head(urls))
         THEN LPush(q, SeedTask(Head(urls), priority))
         ELSE q,
         Tail(urls), priority)

\* CrawlerMaster.add_seed_urls(urls, priority)
add_seed_urls(urls, priority) ==
  /\ Len(task_queue) + Len(urls) <= MaxQueued
  /\ task_queue' = PushSeeds(task_queue, urls, priority)
  /\ seeded' = [kind |-> "done", urls |-> urls, priority |-> priority,
                seen |-> visited, before |-> task_queue]
  /\ UNCHANGED <<master, drained, result_queue, visited, masterFrame>>

\* CrawlerMaster.run(seed_urls) up to its first sleep: is_running = True,
\* the seeds are added with the default priority, monitor_tasks is started.
MasterRun(urls) ==
  /\ ~master.is_running
  /\ Len(task_queue) + Len(urls) <= MaxQueued
  /\ master' = [master EXCEPT !.is_running = TRUE]
  /\ IF urls # <<>>
     THEN /\ task_queue' = PushSeeds(task_queue, urls, DefaultPriority)
          /\ seeded' = [kind |-> "done", urls |-> urls, priority |-> DefaultPriority,
                        seen |-> visited, before |-> task_queue]
     ELSE UNCHANGED <<task_queue, seeded>>
  /\ UNCHANGED <<drained, result_queue, visited, masterFrame>>

\* run() is interrupted or cancelled: `finally: self.is_running = False`,
\* the monitor is cancelled.
MasterStop ==
  /\ master.is_running
  /\ master' = [master EXCEPT !.is_running = FALSE]
  /\ UNCHANGED <<drained, seeded, qVars, masterFrame>>

\* Result descriptors the workers push.
ResultDescriptors ==
  { SuccessResult(1, [url |-> "http://a.test/", id |-> 1]),
    FailureResult(2, [url |-> "http://b.test/y", id |-> 2], "timeout") }

\* A worker's push_result(descriptor).
PushResult(r) ==
  /\ Len(drained) + Len(result_queue) < MaxResults
  /\ result_queue' = LPush(result_queue, r)
  /\ UNCHANGED <<master, drained, seeded, task_queue, visited, masterFrame>>

\* Faulty variant of CountResult: every result counts as completed.
CountAsCompleted(st, r) == [st EXCEPT !.completed_tasks = @ + 1]

\* monitor_tasks: `if result.get('success')` completed_tasks += 1, else
\* failed_tasks += 1.
CountResult(st, r) ==
  IF r.success THEN [st EXCEPT !.completed_tasks = @ + 1]
  ELSE [st EXCEPT !.failed_tasks = @ + 1]

\* One pass of the loop of monitor_tasks, up to its sleep: pop_result,
\* count what was popped, record the length of the task queue.
MonitorTasks ==
  /\ master.is_running
  /\ IF result_queue # <<>>
     THEN /\ result_queue' = RPopRest(result_queue)
          /\ drained' = Append(drained, RPopValue(result_queue))
          /\ master' = [CountResult(master, RPopValue(result_queue))
                          EXCEPT !.queue_size = Len(task_queue)]
     ELSE /\ master' = [master EXCEPT !.queue_size = Len(task_queue)]
          /\ UNCHANGED <<result_queue, drained>>
  /\ UNCHANGED <<seeded, task_queue, visited, masterFrame>>

(***************************************************************************)
(* FileStorage (the default storage of get_storage): the id of a page and  *)
(* the file written under it.                                              *)
(***************************************************************************)
MaxSaves == 2

\* Fetched bodies: `content` as download() returns it (bytes, from
\* response.read()) and as text.
Bodies == {[type |-> "bytes", value |-> "page"], [type |-> "str", value |-> "page"]}
PageURLs == {"http://a.test/", "http://b.test/y"}
\* Values of time.time() when process_task builds its data dict.
Timestamps == {1, 2}

\* The data dict process_task hands to storage.save.
PageData(w, url, body, ts) ==
  [url |-> url, content |-> body, status |-> 200, worker_id |-> w, timestamp |-> ts]

TypeError == "TypeError"

\* json.dumps of a data dict: bytes are not JSON serializable; otherwise
\* the text determines the dict and the dict the text.
JsonDumpsData(data) ==
  IF data.content.type = "bytes" THEN TypeError ELSE <<"json", data>>

\* FileStorage._generate_id: md5 of json.dumps(data, sort_keys=True), every
\* field of the dict included.
generate_id(data) ==
  IF JsonDumpsData(data) = TypeError THEN TypeError
  ELSE <<"md5", JsonDumpsData(data)>>

InitStore ==
  /\ files = EmptyDict
  /\ save_log = <<>>

\* FileStorage.save(data) for a dict without 'id': the id is generated, the
\* file at that id is opened for writing and the dict, with _created_at and
\* _storage_type added, is written to it.  An exception of _generate_id
\* leaves the files as they are.
StorageSave(w, url, body, ts) ==
  /\ Len(save_log) < MaxSaves
  /\ \E id \in {generate_id(PageData(w, url, body, ts))} :
       /\ save_log' = Append(save_log, [worker_id |-> w, url |-> url, body |-> body,
                                        id |-> id])
       /\ IF id = TypeError
          THEN UNCHANGED files
          ELSE files' = DictSet(files, id,
                                [data |-> PageData(w, url, body, ts),
                                 created_at |-> ts, storage_type |-> "file"])
  /\ UNCHANGED <<pipeVars, workerVars, urlVars, bloomVars, queueVars, mw, task_obj,
                 masterVars, preVars, proxyVars, appVars>>

(***************************************************************************)
(* AntiBlockingMiddleware.process_request (the pre-check) and              *)
(* process_exception, for one caller at a time on the host MwHost.         *)
(***************************************************************************)
\* The clock runs far enough for a pause of 60 s to end; a penalty of 300 s
\* and more is compared with the clock by the same lines.
MaxClock == 70
MaxPreChecks == 2
TimestampWindow == 60

\* No call yet; n counts the process_request calls made.
NoPre == [kind |-> "none", n |-> 0]

InitPre ==
  /\ request_timestamps = EmptyDict
  /\ pre = NoPre

\* dict.pop(key, None)
DictPop(d, key) == [k \in DOMAIN d \ {key} |-> d[k]]

\* Time passes up to the next instant something is waiting for: the end of
\* a sleep of process_request or the blocked_until of a host.
Elapse ==
  /\ \E t \in {blocked_until[d] : d \in DOMAIN blocked_until}
              \cup (IF pre.kind = "sleeping" THEN {pre.wake} ELSE {}) :
       /\ t > now
       /\ t <= MaxClock
       /\ now' = t
  /\ UNCHANGED <<libVars, workerVars, dlVars, rlVars, abVars, callBlocked>>

\* Faulty variant of BlockedUntilAfterPreCheck: the entry is dropped even
\* when the pre-check rejects.
BlockedUntilAlwaysPopped(domain) == DictPop(blocked_until, domain)

\* blocked_until after the first lines of process_request: an entry that
\* lies in the future stays (the call raises), one that is due is popped.
BlockedUntilAfterPreCheck(domain) ==
  IF PreCheckRaises(domain) THEN blocked_until ELSE DictPop(blocked_until, domain)

\* The exception texts process_exception is handed.
DomainBlockedText == "Domain a.test is temporarily blocked"
ExceptionTexts ==
  { DomainBlockedText, "Blocked by a.test", "Rate limited by a.test",
    "HTTP 429", "timeout" }

\* `"blocked" in str(exception).lower() or "429" in str(exception)`
MentionsBlock(text) ==
  text \in {DomainBlockedText, "Blocked by a.test", "HTTP 429"}

\* process_request(request) up to its first suspension.  With the host
\* blocked it raises at once; otherwise a due entry is popped and the call
\* sleeps for the host's delay (then for a jitter below the clock's
\* resolution).
process_request(domain) ==
  /\ pre.kind # "sleeping"
  /\ pre.n < MaxPreChecks
  /\ blocked_until' = BlockedUntilAfterPreCheck(domain)
  /\ UNCHANGED <<blocked_domains, domain_delays, request_timestamps>>
  /\ IF PreCheckRaises(domain)
     THEN pre' = [kind |-> "raised", n |-> pre.n + 1, domain |-> domain, at |-> now,
                  slept |-> 0,
                  unchanged |-> (/\ blocked_until' = blocked_until
                                 /\ blocked_domains' = blocked_domains
                                 /\ domain_delays' = domain_delays
                                 /\ request_timestamps' = request_timestamps)]
     ELSE pre' = [kind |-> "sleeping", n |-> pre.n + 1, domain |-> domain, at |-> now,
                  due |-> domain \in DOMAIN blocked_until,
                  popped |-> domain \notin DOMAIN blocked_until',
                  delay |-> DictGet(domain_delays, domain, 0),
                  wake |-> now + DictGet(domain_delays, domain, 0)]
  /\ UNCHANGED <<urlVars, bloomVars, queueVars, mw, task_obj, masterVars, storeVars,
                 proxyVars, appVars>>
  /\ UNCHANGED <<workerVars, now, dlVars, rlVars, callBlocked>>

\* process_request after its sleeps: the time is appended to the host's
\* timestamps, of which the last minute is kept; the request is returned.
process_request_resume ==
  /\ pre.kind = "sleeping"
  /\ now >= pre.wake
  /\ request_timestamps' =
       DictSet(request_timestamps, pre.domain,
               SelectSeq(Append(DictGet(request_timestamps, pre.domain, <<>>), now),
                         LAMBDA ts : now - ts < TimestampWindow))
  /\ pre' = [kind |-> "admitted", n |-> pre.n, domain |-> pre.domain, at |-> pre.at,
             due |-> pre.due, popped |-> pre.popped, delay |-> pre.delay,
             slept |-> now - pre.at]
  /\ UNCHANGED <<urlVars, bloomVars, queueVars, mw, task_obj, masterVars, storeVars,
                 proxyVars, appVars>>
  /\ UNCHANGED <<workerVars, now, dlVars, rlVars, abVars, callBlocked>>

\* process_exception(exception, request): an exception whose text mentions
\* a block or 429 is handled by _handle_blocking.  The exception of the
\* pre-check is handed over after the pre-check has raised it.
process_exception(text, domain) ==
  /\ pre.kind # "sleeping"
  /\ text = DomainBlockedText => (pre.kind = "raised" /\ pre.domain = domain)
  /\ IF MentionsBlock(text)
     THEN \E block_duration \in {BlockMin, BlockMax}, delay \in {DelayMin, DelayMax} :
            /\ blocked_until' = DictSet(blocked_until, domain, now + block_duration)
            /\ blocked_domains' = blocked_domains \cup {domain}
            /\ domain_delays' = DictSet(domain_delays, domain, delay)
     ELSE UNCHANGED abVars
  /\ pre' = [kind |-> "handled", n |-> pre.n, domain |-> domain, at |-> now,
             text |-> text,
             until_before |-> DictGet(blocked_until, domain, 0),
             until_after |-> DictGet(blocked_until', domain, 0)]
  /\ UNCHANGED request_timestamps
  /\ UNCHANGED <<urlVars, bloomVars, queueVars, mw, task_obj, masterVars, storeVars,
                 proxyVars, appVars>>
  /\ UNCHANGED <<workerVars, now, dlVars, rlVars, callBlocked>>

(***************************************************************************)
(* Proxy pools: ProxyManager (the downloader's) and ProxyMiddleware.       *)
(* Python lists are sequences, indexed from 0 in the code and from 1 here. *)
(***************************************************************************)
RecursionLimit == 4
MaxIndex == 4
MaxRun == 2

Proxies == {"p1", "p2"}
IndexError == "IndexError"
RecursionError == "RecursionError"

NoGot == [who |-> "none"]

InitProxy ==
  /\ pm = [proxies |-> <<>>, current_index |-> 0, bad_proxies |-> {}]
  /\ pmw = [proxies |-> <<>>, current_proxy_index |-> 0, bad_proxies |-> {}]
  /\ got = [last |-> NoGot, manager_run |-> <<>>, middleware_run |-> <<>>]

proxyFrame ==
  <<pipeVars, workerVars, urlVars, bloomVars, queueVars, mw, task_obj, masterVars,
    storeVars, preVars, appVars>>

\* The elements of a list.
Range(s) == {s[i] : i \in DOMAIN s}
\* list.remove(x) / a list comprehension keeping the elements outside a set.
Without(s, set) == SelectSeq(s, LAMBDA x : x \notin set)
\* The proxies of a pool that are not marked bad.
Healthy(pool) == Range(pool.proxies) \ pool.bad_proxies
\* The last n values of a list.
LastOf(s, n) == IF Len(s) <= n THEN s ELSE SubSeq(s, Len(s) - n + 1, Len(s))

\* ProxyManager.get_proxy on a pool, `depth` frames deep: the proxy at
\* current_index is taken (IndexError past the end of the list), the index
\* advances modulo the length, and a proxy marked bad makes the function
\* call itself, until Python's recursion limit.
RECURSIVE GetProxy(_, _)
GetProxy(pool, depth) ==
  IF pool.proxies = <<>> THEN [value |-> None, pool |-> pool]
  ELSE IF pool.current_index + 1 > Len(pool.proxies)
  THEN [value |-> IndexError, pool |-> pool]
  ELSE IF pool.proxies[pool.current_index + 1] \notin pool.bad_proxies
  THEN [value |-> pool.proxies[pool.current_index + 1],
        pool |-> [pool EXCEPT !.current_index = (@ + 1) % Len(pool.proxies)]]
  ELSE IF depth >= RecursionLimit
  THEN [value |-> RecursionError,
        pool |-> [pool EXCEPT !.current_index = (@ + 1) % Len(pool.proxies)]]
  ELSE GetProxy([pool EXCEPT !.current_index = (@ + 1) % Len(pool.proxies)],
                depth + 1)

\* await proxy_manager.get_proxy()
ManagerGetProxy ==
  /\ \E out \in {GetProxy(pm, 1)} :
       /\ pm' = out.pool
       /\ got' = [got EXCEPT
                    !.last = [who |-> "ProxyManager", value |-> out.value,
                              pool |-> Range(pm.proxies), healthy |-> Healthy(pm),
                              bad_after |-> out.pool.bad_proxies],
                    !.manager_run = LastOf(Append(@, out.value), MaxRun)]
  /\ UNCHANGED <<pmw, proxyFrame>>

\* ProxyManager.add_proxy(proxy)
ManagerAddProxy(p) ==
  /\ p \notin Range(pm.proxies)
  /\ pm' = [pm EXCEPT !.proxies = Append(@, p)]
  /\ got' = [got EXCEPT !.manager_run = <<>>]
  /\ UNCHANGED <<pmw, proxyFrame>>

\* ProxyManager.remove_proxy(proxy): current_index and bad_proxies stay.
ManagerRemoveProxy(p) ==
  /\ p \in Range(pm.proxies)
  /\ pm' = [pm EXCEPT !.proxies = Without(@, {p})]
  /\ got' = [got EXCEPT !.manager_run = <<>>]
  /\ UNCHANGED <<pmw, proxyFrame>>

\* ProxyManager.mark_bad_proxy(proxy)
ManagerMarkBadProxy(p) ==
  /\ p \notin pm.bad_proxies
  /\ pm' = [pm EXCEPT !.bad_proxies = @ \cup {p}]
  /\ got' = [got EXCEPT !.manager_run = <<>>]
  /\ UNCHANGED <<pmw, proxyFrame>>

\* ProxyMiddleware.get_proxy: [p for p in self.proxies if p not in self.bad_proxies]
AvailableProxies(pool) == Without(pool.proxies, pool.bad_proxies)

\* ProxyMiddleware.get_proxy: None for an empty pool; with no proxy
\* available the bad set is cleared and the whole pool is available; the
\* proxy at current_proxy_index modulo the number available is returned
\* and the index goes up by one.
MiddlewareGetProxy ==
  /\ pmw.current_proxy_index < MaxIndex
  /\ IF pmw.proxies = <<>>
     THEN /\ got' = [got EXCEPT
                       !.last = [who |-> "ProxyMiddleware", value |-> None,
                                 pool |-> {}, healthy |-> {},
                                 bad_after |-> pmw.bad_proxies]]
          /\ UNCHANGED pmw
     ELSE LET all_bad == AvailableProxies(pmw) = <<>>
              available == IF all_bad THEN pmw.proxies ELSE AvailableProxies(pmw)
              proxy == available[(pmw.current_proxy_index % Len(available)) + 1]
          IN /\ pmw' = [pmw EXCEPT !.bad_proxies = IF all_bad THEN {} ELSE @,
                                   !.current_proxy_index = @ + 1]
             /\ got' = [got EXCEPT
                          !.last = [who |-> "ProxyMiddleware", value |-> proxy,
                                    pool |-> Range(pmw.proxies),
                                    healthy |-> Healthy(pmw),
                                    bad_after |-> IF all_bad THEN {} ELSE pmw.bad_proxies],
                          !.middleware_run =
                             IF all_bad THEN <<proxy>>
                             ELSE LastOf(Append(@, proxy), MaxRun)]
  /\ UNCHANGED <<pm, proxyFrame>>

\* ProxyMiddleware.add_proxies([proxy])
MiddlewareAddProxy(p) ==
  /\ p \notin Range(pmw.proxies)
  /\ pmw' = [pmw EXCEPT !.proxies = Append(@, p)]
  /\ got' = [got EXCEPT !.middleware_run = <<>>]
  /\ UNCHANGED <<pm, proxyFrame>>

\* ProxyMiddleware.remove_proxy(proxy): also dropped from bad_proxies.
MiddlewareRemoveProxy(p) ==
  /\ p \in Range(pmw.proxies)
  /\ pmw' = [pmw EXCEPT !.proxies = Without(@, {p}), !.bad_proxies = @ \ {p}]
  /\ got' = [got EXCEPT !.middleware_run = <<>>]
  /\ UNCHANGED <<pm, proxyFrame>>

\* ProxyMiddleware.mark_bad_proxy(proxy)
MiddlewareMarkBadProxy(p) ==
  /\ p \notin pmw.bad_proxies
  /\ pmw' = [pmw EXCEPT !.bad_proxies = @ \cup {p}]
  /\ got' = [got EXCEPT !.middleware_run = <<>>]
  /\ UNCHANGED <<pm, proxyFrame>>

\* _unmark_bad_proxy_after_timeout: an hour after a mark_bad_proxy the
\* proxy is dropped from bad_proxies.
MiddlewareUnmarkBadProxy(p) ==
  /\ p \in pmw.bad_proxies
  /\ pmw' = [pmw EXCEPT !.bad_proxies = @ \ {p}]
  /\ got' = [got EXCEPT !.middleware_run = <<>>]
  /\ UNCHANGED <<pm, proxyFrame>>

(***************************************************************************)
(* CrawlerApplication.run_worker (main.py): the workers it creates and the *)
(* run() coroutines it starts for them.                                    *)
(***************************************************************************)
InitApp ==
  app = [pc |-> "idle", count |-> 0, workers |-> <<>>, loops |-> <<>>,
         is_running |-> [w \in Workers |-> FALSE]]

appFrame ==
  <<pipeVars, workerVars, urlVars, bloomVars, queueVars, mw, task_obj, masterVars,
    storeVars, preVars, proxyVars, batch, rm>>

\* A worker.run() coroutine wrapped in a task, by create_task or by gather.
RunLoop(w, via) == [worker |-> w, via |-> via, at |-> "scheduled"]

\* run_worker(worker_id, count) is called.
run_worker(count) ==
  /\ app.pc = "idle"
  /\ app' = [app EXCEPT !.pc = "for", !.count = count]
  /\ UNCHANGED appFrame

\* One pass of `for i in range(count)`: a CrawlerWorker is created and
\* appended to self.workers, and create_task(self._run_worker_task(worker))
\* schedules its run().
RunWorkerCreate ==
  /\ app.pc = "for"
  /\ Len(app.workers) < app.count
  /\ LET w == Len(app.workers) + 1
     IN app' = [app EXCEPT !.workers = Append(@, w),
                           !.loops = Append(@, RunLoop(w, "create_task"))]
  /\ UNCHANGED appFrame

\* [worker.run() for worker in self.workers], each wrapped by gather.
GatherRuns(ws) == [k \in 1..Len(ws) |-> RunLoop(ws[k], "gather")]

\* After the loop: `await asyncio.gather(*[worker.run() for worker in
\* self.workers])`.  run_worker has no await before this one, so no task
\* runs earlier.
RunWorkerGather ==
  /\ app.pc = "for"
  /\ Len(app.workers) = app.count
  /\ app' = [app EXCEPT !.pc = "gather", !.loops = @ \o GatherRuns(app.workers)]
  /\ UNCHANGED appFrame

\* A scheduled run() starts: self.is_running = True, then its loop.
WorkerRunStart(k) ==
  /\ app.pc = "gather"
  /\ k \in DOMAIN app.loops
  /\ app.loops[k].at = "scheduled"
  /\ app' = [app EXCEPT !.loops[k].at = "loop",
                        !.is_running[app.loops[k].worker] = TRUE]
  /\ UNCHANGED appFrame

\* `while self.is_running` of a run() is false: it returns.
WorkerRunExit(k) ==
  /\ k \in DOMAIN app.loops
  /\ app.loops[k].at = "loop"
  /\ ~app.is_running[app.loops[k].worker]
  /\ app' = [app EXCEPT !.loops[k].at = "stopped"]
  /\ UNCHANGED appFrame

\* CrawlerApplication.shutdown: worker.is_running = False for every worker.
AppShutdown ==
  /\ app.pc = "gather"
  /\ app' = [app EXCEPT !.is_running = [w \in Workers |-> FALSE]]
  /\ UNCHANGED appFrame

\* Every run() handed to gather has returned: run_worker returns.
RunWorkerReturn ==
  /\ app.pc = "gather"
  /\ \A k \in DOMAIN app.loops :
       app.loops[k].via = "gather" => app.loops[k].at = "stopped"
  /\ app' = [app EXCEPT !.pc = "done"]
  /\ UNCHANGED appFrame

(***************************************************************************)
(* AsyncDownloader.download_batch: one download() per URL of the list,     *)
(* gathered with return_exceptions=True.  The URLs of a batch of n are     *)
(* those of the callers 1..n, in this order.                               *)
(***************************************************************************)
InitBatch == batch = [pc |-> "idle", n |-> 0, results |-> <<>>]

\* {'error': str(result)}
ErrorEntry(e) == [kind |-> "error_entry", error |-> e.err]

\* Faulty variant of BatchEntry: the exception object is left in the list.
BatchEntryRaw(r) == r

\* The entry appended for one result of gather: `isinstance(result,
\* Exception)` gives the error dict, anything else is appended as it is.
BatchEntry(r) == IF r \in Errors THEN ErrorEntry(r) ELSE r

\* tasks = [self.download(url, **kwargs) for url in urls], handed to
\* gather: every download() of the batch is called.
BatchCall(n) ==
  /\ batch.pc = "idle"
  /\ \A c \in Callers : pc[c] = "idle"
  /\ batch' = [batch EXCEPT !.pc = "gather", !.n = n]
  /\ pc' = [c \in Callers |-> IF c <= n THEN "gate" ELSE pc[c]]
  /\ callBlocked' = [c \in Callers |->
                       IF c <= n THEN PreCheckRaises(HostOf(c)) ELSE callBlocked[c]]
  /\ UNCHANGED <<workerVars, now, cfgVars, semaphore, callVars, wake, rlVars, abVars>>
  /\ UNCHANGED <<urlVars, bloomVars, queueVars, mw, task_obj, masterVars, storeVars,
                 preVars, proxyVars, app, rm>>

\* gather returns once every download() has returned or raised, with the
\* results in the order of the tasks; the loop of lines 85-89 builds
\* processed_results from them.
BatchReturn ==
  /\ batch.pc = "gather"
  /\ \A c \in 1..batch.n : pc[c] \in {"returned", "raised"}
  /\ batch' = [batch EXCEPT !.pc = "returned",
                            !.results = [c \in 1..batch.n |-> BatchEntry(result[c])]]
  /\ UNCHANGED <<pipeVars, workerVars>>
  /\ UNCHANGED <<urlVars, bloomVars, queueVars, mw, task_obj, masterVars, storeVars,
                 preVars, proxyVars, app, rm>>

(***************************************************************************)
(* RetryMiddleware (middleware/retry_middleware.py).  rm holds the         *)
(* middleware's retry_queue and retry_stats, the request dicts handed to   *)
(* it, the value of time.time() in whole seconds and the last call made.   *)
(***************************************************************************)

max_retries == 3
RetryBaseDelay == 2
RetryMaxDelay == 60

\* The request dicts handed to the middleware: one carries a 'url', one does
\* not.  A dict is the set of its keys and the values under them.
RetryRequests == 1..2
RetryRequestDicts ==
  [r \in RetryRequests |->
     IF r = 1 THEN [keys |-> {"url"}, url |-> "http://a.test/", retry_count |-> 0]
     ELSE [keys |-> {}, url |-> "", retry_count |-> 0]]

\* request.get('url', '') and request.get('retry_count', 0)
GetUrl(request) == IF "url" \in request.keys THEN request.url ELSE ""
GetRetryCount(request) ==
  IF "retry_count" \in request.keys THEN request.retry_count ELSE 0

\* Exception messages, word by word.
RetryMessages ==
  { <<"timeout">>, <<"Connection", "reset">>, <<"rate", "limit">>,
    <<"HTTP", "500">>, <<"timeout", "404">>, <<"Invalid", "timeout">> }

\* str.lower() of one word of a message.
LowerWord(w) ==
  CASE w = "Connection" -> "connection"
    [] w = "Invalid" -> "invalid"
    [] w = "HTTP" -> "http"
    [] OTHER -> w

retryable_errors ==
  { <<"timeout">>, <<"connection">>, <<"network">>, <<"temporary">>, <<"busy">>,
    <<"overload">>, <<"rate", "limit">>, <<"429">>, <<"503">> }
non_retryable_errors ==
  { <<"404">>, <<"not", "found">>, <<"403">>, <<"forbidden">>, <<"401">>,
    <<"unauthorized">>, <<"400">>, <<"bad", "request">>, <<"invalid">> }

\* `error in error_msg`
Mentions(error, error_msg) ==
  \E i \in 1..Len(error_msg) :
     /\ i + Len(error) - 1 <= Len(error_msg)
     /\ SubSeq(error_msg, i, i + Len(error) - 1) = error

\* RetryMiddleware._should_retry
ShouldRetry(exception) ==
  LET error_msg == [i \in 1..Len(exception) |-> LowerWord(exception[i])]
  IN  /\ ~ \E error \in non_retryable_errors : Mentions(error, error_msg)
      /\ \E error \in retryable_errors : Mentions(error, error_msg)

\* RetryMiddleware._calculate_retry_delay without its jitter.  The jitter of
\* 0.1 to 0.5 s is below the clock's resolution: it makes an item due only
\* at whole seconds after retry_at (RetryDue).
CalculateRetryDelay(n) ==
  Min(RetryBaseDelay * Pow2(n - 1), RetryMaxDelay)

\* `item['retry_at'] <= current_time`, retry_at being the whole seconds of
\* the due time.
RetryDue(item, current_time) == item.retry_at < current_time

InitRetry ==
  rm = [ time |-> 0,
         retry_queue |-> <<>>,
         retry_stats |-> [total_retries |-> 0, successful_retries |-> 0,
                          failed_retries |-> 0, retry_attempts |-> <<>>],
         request |-> RetryRequestDicts,
         last |-> [op |-> "none"] ]

retryFrame ==
  /\ UNCHANGED <<pipeVars, workerVars>>
  /\ UNCHANGED <<urlVars, bloomVars, queueVars, mw, task_obj, masterVars, storeVars,
                 preVars, proxyVars, app, batch>>

\* RetryMiddleware.process_exception(exception, request), r naming the dict
\* passed.  The queued item refers to the dict itself, so it is kept as r.
retry_process_exception(exception, r) ==
  LET request == rm.request[r]
      url == GetUrl(request)
      retry_count == GetRetryCount(request)
  IN  /\ rm' =
           IF retry_count < max_retries /\ ShouldRetry(exception)
           THEN [rm EXCEPT
                   !.request[r] = [request EXCEPT !.keys = @ \cup {"retry_count"},
                                                  !.retry_count = retry_count + 1],
                   !.retry_queue =
                      Append(@, [request |-> r,
                                 retry_at |-> rm.time + CalculateRetryDelay(retry_count + 1),
                                 attempt |-> retry_count + 1]),
                   !.retry_stats.total_retries = @ + 1,
                   !.retry_stats.retry_attempts =
                      [u \in DOMAIN @ \cup {url} |-> IF u = url THEN retry_count + 1 ELSE @[u]],
                   !.last = [op |-> "process_exception", request |-> r,
                             exception |-> exception, scheduled |-> TRUE]]
           ELSE [rm EXCEPT
                   !.last = [op |-> "process_exception", request |-> r,
                             exception |-> exception, scheduled |-> FALSE]]
      /\ retryFrame

\* The items of retry_now that the loop of process_retry_queue gets through:
\* all of them, or those up to the first whose request has no 'url', where
\* the f-string of line 74 raises KeyError.
RECURSIVE RetriedItems(_)
RetriedItems(retry_now) ==
  IF retry_now = <<>> THEN <<>>
  ELSE IF "url" \notin rm.request[Head(retry_now).request].keys
       THEN <<Head(retry_now)>>
       ELSE <<Head(retry_now)>> \o RetriedItems(Tail(retry_now))

\* process_retry_queue().  Due items leave the queue.  Each one retried
\* counts as successful (line 73); for an item whose request has no 'url'
\* the log line 74 then raises KeyError, the handler counts the item as
\* failed as well (line 76) and its own log line 77 raises KeyError again,
\* which leaves the call: lines 79-80 are not reached and the due items
\* after it are dropped uncounted.
process_retry_queue ==
  LET current_time == rm.time
      IsDue(item) == RetryDue(item, current_time)
      IsNotDue(item) == ~ RetryDue(item, current_time)
      retry_now == SelectSeq(rm.retry_queue, IsDue)
      remaining == SelectSeq(rm.retry_queue, IsNotDue)
      retried == RetriedItems(retry_now)
      raised == /\ retried # <<>>
                /\ "url" \notin rm.request[retried[Len(retried)].request].keys
  IN  /\ rm' = [rm EXCEPT
                  !.retry_queue = remaining,
                  !.retry_stats.successful_retries = @ + Len(retried),
                  !.retry_stats.failed_retries = IF raised THEN @ + 1 ELSE @,
                  !.last = [op |-> "process_retry_queue", due |-> Len(retry_now),
                            raised |-> raised]]
      /\ retryFrame

\* time.time() moves on to the second at which a queued item becomes due.
RetryElapse ==
  /\ \E i \in DOMAIN rm.retry_queue :
        /\ rm.retry_queue[i].retry_at >= rm.time
        /\ rm' = [rm EXCEPT !.time = rm.retry_queue[i].retry_at + 1]
  /\ retryFrame

(***************************************************************************)
(* Specifications.                                                         *)
(***************************************************************************)
\* Every site answers 200.
AllOk ==
  [u \in CanonicalURLs |->
     [kind |-> "reply", status |-> 200, content |-> "page", headers |-> PlainHeaders]]

\* No normalize_url call is studied.
InitUrlIdle ==
  /\ url_arg = <<>>
  /\ other = <<>>
  /\ canon = NoCanon
\* A Bloom filter whose items all hash to position 0.
IdleHashes == [x \in Items |-> [i \in 0..(num_hashes - 1) |-> 0]]
\* The components a specification does not exercise, as constructed.
InitPipeIdle == InitPipe({MaxRetryTimes}, {MaxConcurrentCfg})
InitWorkersIdle == InitWorkers({AllOk})
InitBloomIdle == InitBloom({IdleHashes})
InitMw == mw = NoMw
InitExt ==
  InitMaster /\ InitStore /\ InitPre /\ InitProxy /\ InitApp /\ InitBatch /\ InitRetry
InitLibIdle ==
  /\ InitUrlIdle /\ InitSeen /\ InitBloomIdle /\ InitQueues /\ InitMw /\ InitTask /\ InitExt

\* The fetch pipeline on its own, for each configuration; no worker runs.
Init ==
  InitPipe(0..MaxRetryTimes, 1..MaxConcurrentCfg) /\ InitWorkers({AllOk}) /\ InitLibIdle

\* The workers on their own, for each behaviour of the sites; the
\* downloader is in its default configuration.
InitWorker ==
  InitPipeIdle /\ InitWorkers([CanonicalURLs -> FetchOutcomes]) /\ InitLibIdle

Next ==
  \/ Tick
  \/ \E c \in Callers : Call(c)
  \/ \E c \in Callers : SemAcquire(c)
  \/ \E c \in Callers : RateAcquire(c)
  \/ \E c \in Callers : RateWake(c)
  \/ \E c \in Callers : DelayDone(c)
  \/ \E c \in Callers : Attempt(c)
  \/ \E c \in Callers : BackoffDone(c)

Spec == Init /\ [][Next]_vars

\* The clock advances while a call sleeps.
SleepTick ==
  /\ \E c \in Callers : pc[c] \in {"rl_sleep", "backoff"} /\ wake[c] > now
  /\ now' = now + 1
  /\ UNCHANGED <<libVars, workerVars, dlVars, rlVars, abVars, callBlocked>>

\* The steps of a download() call that has been made.
DownloadStep(c) ==
  SemAcquire(c) \/ RateAcquire(c) \/ RateWake(c) \/ DelayDone(c) \/ Attempt(c) \/ BackoffDone(c)

NextDownload ==
  \/ SleepTick
  \/ \E c \in Callers : Call(c)
  \/ \E c \in Callers : DownloadStep(c)

\* The fetch pipeline under the asyncio event loop: time advances, every
\* HTTP attempt ends, and a coroutine that can run is run.  Nothing obliges
\* anyone to call download().
InitDownload ==
  InitPipe({2}, 1..MaxConcurrentCfg) /\ InitWorkers({AllOk}) /\ InitLibIdle
SpecDownloadLive ==
  /\ InitDownload /\ [][NextDownload]_vars
  /\ WF_vars(SleepTick)
  /\ \A c \in Callers : WF_vars(DownloadStep(c))

\* The pipeline as an application composes it: download() calls, here with
\* retry_times = 1 (one attempt per call), and process_response run on what
\* they return.
InitPipeline == InitPipe({1}, 1..MaxConcurrentCfg) /\ InitWorkers({AllOk}) /\ InitLibIdle

NextPipeline ==
  \/ Tick
  \/ \E c \in Callers : Call(c)
  \/ \E c \in Callers : SemAcquire(c)
  \/ \E c \in Callers : RateAcquire(c)
  \/ \E c \in Callers : RateWake(c)
  \/ \E c \in Callers : DelayDone(c)
  \/ \E c \in Callers : Attempt(c)
  \/ \E c \in Callers : ProcessResponse(c)

SpecPipeline == InitPipeline /\ [][NextPipeline]_vars

NextWorker ==
  \/ \E u \in URLs : PushTask(u)
  \/ \E w \in Workers : RunStart(w)
  \/ \E w \in Workers : RunExit(w)
  \/ \E w \in Workers : PopTask(w)
  \/ \E w \in Workers : IdleWake(w)
  \/ \E w \in Workers : Shutdown(w)
  \/ \E w \in Workers : ProcessTask(w)

SpecWorker == InitWorker /\ [][NextWorker]_vars

\* The workers under the asyncio event loop: a coroutine that can run is
\* run, so every step of a worker's run() that stays possible is taken.
\* Nothing obliges anyone to push a task or to call shutdown().
WorkerStep(w) ==
  RunStart(w) \/ RunExit(w) \/ PopTask(w) \/ IdleWake(w) \/ ProcessTask(w)
SpecWorkerLive ==
  InitWorker /\ [][NextWorker]_vars /\ \A w \in Workers : WF_vars(WorkerStep(w))

\* normalize_url and url_to_hash as functions of their argument.
InitNormalize ==
  /\ InitPipeIdle /\ InitWorkersIdle
  /\ InitUrl(UrlParts) /\ InitSeen /\ InitBloomIdle /\ InitQueues /\ InitMw /\ InitTask /\ InitExt
NextNormalize ==
  \/ NormalizeUrlCall
  \/ UrlToHashCall
SpecNormalize == InitNormalize /\ [][NextNormalize]_vars

\* The exact seen-set of URLManager.
InitSeenSet == InitPipeIdle /\ InitWorkersIdle /\ InitLibIdle
NextSeen ==
  \/ \E u \in SeenURLs : mark_visited(u)
  \/ \E u \in SeenURLs : is_visited(u)
  \/ clear_visited_urls
SpecSeen == InitSeenSet /\ [][NextSeen]_vars

\* One BloomFilter and one ScalableBloomFilter, for each hash function.
InitBloomFilters ==
  /\ InitPipeIdle /\ InitWorkersIdle
  /\ InitUrlIdle /\ InitSeen /\ InitBloom(HashFunctions) /\ InitQueues /\ InitMw /\ InitTask /\ InitExt
NextBloom ==
  \/ \E x \in Items : BloomAdd(x)
  \/ \E xs \in [1..2 -> Items] : BloomAddMany(xs)
  \/ \E x \in Items : BloomContains(x)
  \/ BloomClear
  \/ \E x \in Items : ScalableAdd(x)
  \/ \E x \in Items : ScalableContains(x)
  \/ ScalableClear
SpecBloom == InitBloomFilters /\ [][NextBloom]_vars

\* The two Redis lists under any callers.
InitQueue == InitPipeIdle /\ InitWorkersIdle /\ InitLibIdle
NextQueue ==
  \/ \E x \in QueueItems : push_task(x)
  \/ pop_task
  \/ \E x \in QueueItems : push_result(x)
  \/ pop_result
SpecQueue == InitQueue /\ [][NextQueue]_vars

\* The middleware on the responses of one host, as time passes.
InitMiddleware == InitPipeIdle /\ InitWorkersIdle /\ InitLibIdle
NextMiddleware ==
  \/ Tick
  \/ \E r \in MwReplies : process_response(MwHost, r)
SpecMiddleware == InitMiddleware /\ [][NextMiddleware]_vars

\* The middleware around the requests of one host: pre-check, response
\* handling and exception handling, as time passes.
InitPreCheck == InitPipeIdle /\ InitWorkersIdle /\ InitLibIdle
NextPreCheck ==
  \/ Elapse
  \/ process_request(MwHost)
  \/ process_request_resume
  \/ \E r \in PreReplies : process_response(MwHost, r)
  \/ \E text \in ExceptionTexts : process_exception(text, MwHost)
SpecPreCheck == InitPreCheck /\ [][NextPreCheck]_vars

\* One Task under any calls of its lifecycle methods.
InitTaskModel == InitPipeIdle /\ InitWorkersIdle /\ InitLibIdle
NextTask ==
  \/ \E w \in WorkerIds : mark_started(w)
  \/ mark_completed
  \/ \E e \in TaskErrors : mark_failed(e)
  \/ prepare_for_retry
SpecTask == InitTaskModel /\ [][NextTask]_vars

\* The master over the queues and the seen-set; workers push results and
\* URLs get marked visited by whoever awaits mark_visited.
InitMasterNode == InitPipeIdle /\ InitWorkersIdle /\ InitLibIdle
NextMaster ==
  \/ \E urls \in SeedLists, priority \in Priorities : add_seed_urls(urls, priority)
  \/ \E urls \in SeedLists \cup {<<>>} : MasterRun(urls)
  \/ MasterStop
  \/ MonitorTasks
  \/ \E r \in ResultDescriptors : PushResult(r)
  \/ \E u \in SeedURLs : mark_visited(u)
SpecMaster == InitMasterNode /\ [][NextMaster]_vars

\* The master under the asyncio event loop: while monitor_tasks can run a
\* pass it runs one.
SpecMasterLive == InitMasterNode /\ [][NextMaster]_vars /\ WF_vars(MonitorTasks)

\* FileStorage under saves by the workers.
InitStorage == InitPipeIdle /\ InitWorkersIdle /\ InitLibIdle
NextStorage ==
  \E w \in Workers, url \in PageURLs, body \in Bodies, ts \in Timestamps :
    StorageSave(w, url, body, ts)
SpecStorage == InitStorage /\ [][NextStorage]_vars

\* The two proxy pools under any calls.
InitProxies == InitPipeIdle /\ InitWorkersIdle /\ InitLibIdle
NextProxy ==
  \/ ManagerGetProxy
  \/ \E p \in Proxies : ManagerAddProxy(p)
  \/ \E p \in Proxies : ManagerRemoveProxy(p)
  \/ \E p \in Proxies : ManagerMarkBadProxy(p)
  \/ MiddlewareGetProxy
  \/ \E p \in Proxies : MiddlewareAddProxy(p)
  \/ \E p \in Proxies : MiddlewareRemoveProxy(p)
  \/ \E p \in Proxies : MiddlewareMarkBadProxy(p)
  \/ \E p \in Proxies : MiddlewareUnmarkBadProxy(p)
SpecProxy == InitProxies /\ [][NextProxy]_vars

\* run_worker for each count, with shutdown() possible at any time.
InitAppRun == InitPipeIdle /\ InitWorkersIdle /\ InitLibIdle
NextApp ==
  \/ \E count \in 1..NumWorkers : run_worker(count)
  \/ RunWorkerCreate
  \/ RunWorkerGather
  \/ \E k \in 1..(2 * NumWorkers) : WorkerRunStart(k)
  \/ \E k \in 1..(2 * NumWorkers) : WorkerRunExit(k)
  \/ AppShutdown
  \/ RunWorkerReturn
SpecApp == InitAppRun /\ [][NextApp]_vars

\* download_batch for each length of the list, with no retry loop pass
\* (retry_times = 0) and with two.
InitBatchRun ==
  InitPipe({0, 2}, 1..MaxConcurrentCfg) /\ InitWorkers({AllOk}) /\ InitLibIdle
NextBatch ==
  \/ SleepTick
  \/ \E n \in 1..NumCallers : BatchCall(n)
  \/ \E c \in Callers : DownloadStep(c)
  \/ BatchReturn
SpecBatch == InitBatchRun /\ [][NextBatch]_vars

\* RetryMiddleware(max_retries) handed exceptions for two request dicts while
\* its queue is processed from time to time.
NextRetry ==
  \/ \E exception \in RetryMessages, r \in RetryRequests : retry_process_exception(exception, r)
  \/ process_retry_queue
  \/ RetryElapse
SpecRetry == InitAppRun /\ [][NextRetry]_vars

(***************************************************************************)
(* Properties of the fetch pipeline.                                       *)
(***************************************************************************)

\* Calls that have passed the admission semaphore and not yet returned or
\* raised.
InFlight ==
  {c \in Callers : pc[c] \in {"rl_lock", "rl_sleep", "delay", "attempt", "backoff"}}

Sleeping == {c \in Callers : pc[c] \in {"rl_sleep", "delay", "backoff"}}

\* C1: the number of download() calls past the admission semaphore and not
\* yet finished, sleeping ones included, never exceeds max_concurrent; the
\* free slots and the calls in flight always add up to max_concurrent.
C1_InFlightBounded ==
  /\ Cardinality(InFlight) <= max_concurrent
  /\ semaphore + Cardinality(InFlight) = max_concurrent

\* C1 witness: max_concurrent = 2, two calls in flight (one of them asleep)
\* and a third call held at the gate.
C1_Witness ==
  /\ max_concurrent = 2
  /\ Cardinality(InFlight) = 2
  /\ InFlight \cap Sleeping # {}
  /\ \E c \in Callers : pc[c] = "gate"

\* acquire() calls that returned to their caller in the window [t, t + time_window).
GrantedIn(t) ==
  {i \in DOMAIN granted : t <= granted[i] /\ granted[i] < t + time_window}

\* C2 (as claimed): in every interval of length time_window at most
\* max_requests acquire() calls complete.
C2_WindowRespected ==
  \A t \in 0..MaxTime : Cardinality(GrantedIn(t)) <= max_requests

\* C4 (as claimed): download() never returns a response whose status is
\* outside 200..299.
C4_OnlySuccessStatusReturned ==
  \A c \in Callers :
    (pc[c] = "returned" /\ result[c].kind = "response")
      => result[c].status \in 200..299

\* C4 (amended): download() returns the reply of the server whatever its
\* status, and it fails only with the transport error of its last attempt:
\* every HTTP reply ends the call with a returned response of that status.
C4_EveryReplyReturned ==
  \A c \in Callers :
    /\ last[c] \in Replies
         => pc[c] = "returned" /\ result[c] = Response(c, last[c])
    /\ pc[c] = "raised" => last[c] \in Errors /\ result[c] = last[c]
    /\ (pc[c] = "returned" /\ retry_times >= 1) => last[c] \in Replies

\* C4 witness: a call has returned a 404 response.
C4_Witness ==
  \E c \in Callers :
    pc[c] = "returned" /\ result[c].kind = "response" /\ result[c].status = 404

\* C5: with retry_times = N >= 1 a call issues at most N attempts; it
\* returns the reply of its first attempt that does not raise, having slept
\* 2^k after each failed attempt k before it; if all N attempts raise it
\* raises the error of the last one, having slept 2^0 + ... + 2^(N-2).
C5_RetryLoop ==
  \A c \in Callers :
    retry_times >= 1 =>
      /\ issued[c] <= retry_times
      /\ failed[c] <= issued[c]
      /\ pc[c] = "returned" =>
           /\ result[c] = Response(c, last[c])
           /\ failed[c] = issued[c] - 1
           /\ slept[c] = Pow2(issued[c] - 1) - 1
      /\ pc[c] = "raised" =>
           /\ issued[c] = retry_times
           /\ failed[c] = retry_times
           /\ result[c] = last[c]
           /\ last[c] \in Errors
           /\ slept[c] = Pow2(retry_times - 1) - 1
      /\ pc[c] = "backoff" =>
           /\ failed[c] = issued[c]
           /\ issued[c] = attempt[c] + 1
           /\ issued[c] < retry_times
           /\ slept[c] = Pow2(issued[c]) - 1
           /\ wake[c] >= slept[c]
           /\ wake[c] <= now + Pow2(attempt[c])
      /\ pc[c] = "attempt" =>
           /\ failed[c] = issued[c]
           /\ issued[c] = attempt[c]
           /\ now >= slept[c]

\* C5 witness: retry_times = 3, the first two attempts raised, the third
\* got a 200 reply which is returned after 2^0 + 2^1 = 3 seconds of back-off.
C5_Witness ==
  /\ retry_times = 3
  /\ \E c \in Callers :
       /\ pc[c] = "returned"
       /\ issued[c] = 3
       /\ failed[c] = 2
       /\ slept[c] = 3
       /\ result[c].kind = "response"
       /\ result[c].status = 200

\* C6 (as claimed): with retry_times = 0 a finished call has made exactly
\* one HTTP attempt, slept no back-off, and ended with that attempt's reply
\* or error.
C6_ZeroRetriesOneAttempt ==
  \A c \in Callers :
    (retry_times = 0 /\ pc[c] \in {"returned", "raised"})
      => /\ issued[c] = 1
         /\ slept[c] = 0
         /\ result[c].kind \in {"response", "error"}

(***************************************************************************)
(* Properties of the worker loop.                                          *)
(***************************************************************************)

\* Whether the server answers a fetch of this URL with status 200.
Answers200(u) ==
  site[NormalizeUrl(u)] \in Replies /\ site[NormalizeUrl(u)].status = 200

\* Storage.save calls a worker made for a canonical URL.
SavesOf(w, u) ==
  {i \in DOMAIN saved :
     saved[i].worker_id = w /\ NormalizeUrl(saved[i].url) = NormalizeUrl(u)}

\* Result descriptors pushed for a task.
ResultsOf(t, ok) ==
  {i \in DOMAIN result_queue :
     result_queue[i].task_id = t.id /\ result_queue[i].success = ok}

\* C7 (as claimed): when one worker has handled two tasks with the same
\* canonical URL and the server answers 200, exactly one page was saved, one
\* success result was pushed for the first task and nothing for the second.
C7_DuplicateSavedOnce ==
  \A i, j \in DOMAIN handled :
    (/\ i < j
     /\ handled[i].worker = handled[j].worker
     /\ NormalizeUrl(handled[i].task.url) = NormalizeUrl(handled[j].task.url)
     /\ Answers200(handled[i].task.url))
      => /\ Cardinality(SavesOf(handled[i].worker, handled[i].task.url)) = 1
         /\ Cardinality(ResultsOf(handled[i].task, TRUE)) = 1
         /\ ResultsOf(handled[j].task, TRUE) = {}
         /\ ResultsOf(handled[j].task, FALSE) = {}

\* C8 (as claimed): a handled task whose URL was not in the seen-set and
\* whose fetch the server answers with 200 has its page saved, its URL
\* marked visited and one success result pushed.
C8_FetchedPageProcessed ==
  \A i \in DOMAIN handled :
    Answers200(handled[i].task.url)
      => /\ SavesOf(handled[i].worker, handled[i].task.url) # {}
         /\ IsVisited(handled[i].task.url)
         /\ \E k \in DOMAIN handled :
              /\ NormalizeUrl(handled[k].task.url) = NormalizeUrl(handled[i].task.url)
              /\ Cardinality(ResultsOf(handled[k].task, TRUE)) = 1

\* C9 (as claimed): a handled task whose fetch fails (transport error or a
\* status other than 200) has exactly one result descriptor, with
\* success = false and an error string, and the worker is back in its loop.
C9_FailureReported ==
  \A i \in DOMAIN handled :
    ~Answers200(handled[i].task.url)
      => /\ Cardinality(ResultsOf(handled[i].task, FALSE)) = 1
         /\ ResultsOf(handled[i].task, TRUE) = {}
         /\ \A k \in ResultsOf(handled[i].task, FALSE) : result_queue[k].error # ""

\* C10 (as claimed): a handled task whose fetch the server answers with 403
\* has no page saved, a failure result, and its host penalised for at least
\* 300 seconds.
C10_BlockedHostPenalised ==
  \A i \in DOMAIN handled :
    LET u == handled[i].task.url IN
    (site[NormalizeUrl(u)] \in Replies /\ site[NormalizeUrl(u)].status = 403)
      => /\ SavesOf(handled[i].worker, u) = {}
         /\ ResultsOf(handled[i].task, FALSE) # {}
         /\ Netloc(u) \in DOMAIN blocked_until
         /\ blocked_until[Netloc(u)] >= now + BlockMin

\* C3 (as claimed): a download() call made for a host that the block table
\* holds as blocked (blocked_until[host] > now) does not return a response
\* while the host is still blocked.
C3_BlockedHostNotFetched ==
  \A c \in Callers :
    (callBlocked[c] /\ PreCheckRaises(HostOf(c))
       /\ pc[c] \in {"returned", "passed", "rejected"})
      => result[c].kind # "response"


(***************************************************************************)
(* Properties of URLManager, the Bloom filters, the queues, the shutdown,  *)
(* the middleware and Task.                                                *)
(***************************************************************************)

\* C11: the seen-set holds exactly the fingerprints of the URLs marked
\* since the last clear, and is_visited(u') answers true exactly when a URL
\* with the canonical form of u' was marked before the call and not
\* cleared since: true for the marked URL and for every other writing of
\* it, false for a URL whose fingerprint was never marked.
C11_SeenSetExact ==
  /\ visited = {url_to_hash(m) : m \in marked}
  /\ answer.kind = "bool" =>
       answer.value =
         (\E m \in answer.after : normalize_url(m) = normalize_url(answer.url))
\* is_visited answered true for a URL that was not itself marked but has
\* the canonical form of a marked one.
C11_Witness ==
  /\ answer.kind = "bool"
  /\ answer.value
  /\ answer.url \notin answer.after

\* C12: no false negatives.  Every position of every item added since the
\* last clear is set in the BloomFilter's bit array and in every filter of
\* the ScalableBloomFilter, and contains answered true for every item that
\* had been added when it was called.
C12_NoFalseNegatives ==
  /\ \A x \in added : hash_functions(x) \subseteq bit_array
  /\ \A x \in sadded : \A i \in DOMAIN filters : hash_functions(x) \subseteq filters[i]
  /\ contained.kind # "none" =>
       (contained.item \in contained.after => contained.value)
\* contains answered true for an added item whose k positions differ, in
\* the scalable filter.
C12_Witness ==
  /\ contained.kind = "ScalableBloomFilter"
  /\ contained.item \in contained.after
  /\ contained.value
  /\ Cardinality(hash_functions(contained.item)) = num_hashes

\* The values a Redis list holds, oldest first, decoded.
Loaded(q) == [i \in 1..Len(q) |-> JsonLoads(q[Len(q) + 1 - i])]

\* C13: each queue is FIFO and independent of the other.  What was pushed
\* to a queue is what was popped from it, in the same order, followed by
\* what it still holds, oldest first; a pop returns the oldest value; it
\* returns none exactly when the list was empty.
C13_QueuesFifo ==
  /\ sent.task = received.task \o Loaded(task_queue)
  /\ sent.result = received.result \o Loaded(result_queue)
  /\ popped.kind # "none" => (popped.none <=> popped.left = 0)
  /\ (popped.kind = "task" /\ ~popped.none) =>
       popped.value = sent.task[Len(received.task)]
  /\ (popped.kind = "result" /\ ~popped.none) =>
       popped.value = sent.result[Len(received.result)]
\* Two different tasks were delivered in the order of their push, a result
\* was delivered too, and the last pop found its list empty.
C13_Witness ==
  /\ Len(received.task) >= 2
  /\ received.task[1] # received.task[2]
  /\ Len(received.result) >= 1
  /\ popped.kind # "none"
  /\ popped.none

\* C14 (as claimed): a stop request is never lost: whenever shutdown() has
\* cleared a worker's flag, whatever the moment, its run loop eventually
\* exits.
C14_StopNeverLost ==
  \A w \in Workers : stop_requested[w] ~> (wpc[w] = "stopped")

\* A response is block-classified in the words of the claim: by status, by
\* its Server header whatever the case of the header's name, or by its
\* lower-cased body.
ClaimedBlocked(response) ==
  \/ response.status \in BlockedStatuses
  \/ \E n \in DOMAIN response.headers :
       /\ LowerText(n) = "server"
       /\ LowerText(response.headers[n]) \in ServersWithIndicator
  \/ LowerText(response.content) \in BodiesWithIndicator

\* C15 (as claimed): process_response fails with the blocked error exactly
\* when the response is block-classified, then with blocked_until in
\* [now+300, now+1800] and the host delay in [2, 5]; a response that is
\* neither block-classified nor a 429 is returned with blocked_until and
\* the delays unchanged.
C15_BlockedExactlyWhenClassified ==
  mw.kind = "done" =>
    /\ (mw.raised = "Blocked by") <=> ClaimedBlocked(mw.response)
    /\ mw.raised = "Blocked by" =>
         /\ blocked_until[mw.domain] \in (mw.at + BlockMin)..(mw.at + BlockMax)
         /\ domain_delays[mw.domain] \in DelayMin..DelayMax
    /\ (~ClaimedBlocked(mw.response) /\ mw.response.status # 429) =>
         (mw.raised = "nothing" /\ mw.unchanged)

\* C16 (as claimed): every response with status 429 takes the throttled
\* branch: rate-limited error, host delay min(2 * previous, 10),
\* blocked_until in [now+60, now+300].
C16_Every429Throttled ==
  (mw.kind = "done" /\ mw.response.status = 429) =>
    /\ mw.raised = "Rate limited by"
    /\ domain_delays[mw.domain] = Min(2 * mw.delay_before, DelayCap)
    /\ blocked_until[mw.domain] \in (mw.at + PauseMin)..(mw.at + PauseMax)

\* C17 (as claimed): normalize_url is idempotent on every URL it accepts.
C17_Idempotent ==
  (canon.op = "normalize_url" /\ canon.out # Raised) => canon.again = canon.out

\* C18 (as claimed): two URLs that differ only in scheme case, host case,
\* a leading "www.", duplicated path slashes, the order of the query
\* parameters or the fragment have the same fingerprint.
C18_RewritingsSameFingerprint ==
  canon.op = "url_to_hash" => canon.other_out = canon.out

\* C19 (as claimed): normalize_url rejects every URL whose scheme is not
\* http or https or whose host is empty.
C19_InvalidRejected ==
  ( /\ canon.op = "normalize_url"
    /\ \/ urlparse(url_arg).scheme \notin {<<"http">>, <<"https">>}
       \/ urlparse(url_arg).netloc = <<>> )
  => canon.out = Raised

\* C20 (as claimed): attempt_count and retry_count never exceed
\* max_attempts, whatever lifecycle methods are called.
C20_AttemptsBounded ==
  /\ task_obj.attempt_count <= max_attempts
  /\ task_obj.retry_count <= max_attempts

(***************************************************************************)
(* Properties of the master, the storage, the pre-check, the proxy pools   *)
(* and the stages of download().                                           *)
(***************************************************************************)
\* The task queue add_seed_urls is claimed to leave: one seed task for each
\* URL whose fingerprint is not in the seen-set.
RECURSIVE ExpectedSeeds(_, _, _, _)
ExpectedSeeds(q, urls, priority, seen) ==
  IF urls = <<>> THEN q
  ELSE ExpectedSeeds(
         IF url_to_hash(Head(urls)) \notin seen
         THEN LPush(q, SeedTask(Head(urls), priority))
         ELSE q,
         Tail(urls), priority, seen)

\* C21 (as claimed): add_seed_urls pushes exactly one seed task, with the
\* given priority, for each seed URL that is not in the seen-set and none
\* for a visited one.
C21_SeedsPushed ==
  seeded.kind = "done" =>
    task_queue = ExpectedSeeds(seeded.before, seeded.urls, seeded.priority, seeded.seen)

\* The files that hold a page of this URL with this body.
FilesOf(url, body) ==
  {id \in DOMAIN files : files[id].data.url = url /\ files[id].data.content = body}

\* C22 (as claimed): two saves of the same URL with the same fetched body
\* resolve to the same storage id and leave exactly one stored file for
\* that content.
C22_SameContentSameId ==
  \A i, j \in DOMAIN save_log :
    (i < j /\ save_log[i].url = save_log[j].url /\ save_log[i].body = save_log[j].body)
      => /\ save_log[i].id # TypeError
         /\ save_log[i].id = save_log[j].id
         /\ Cardinality(FilesOf(save_log[i].url, save_log[i].body)) = 1

\* C23 (as claimed): a pre-check made when the host's blocked_until is due
\* admits the request and removes the entry, and handling the exception of
\* a rejected pre-check never moves blocked_until further into the future.
C23_ReturnToNormal ==
  /\ (pre.kind \in {"sleeping", "admitted"} /\ pre.due) => pre.popped
  /\ (pre.kind = "handled" /\ pre.text = DomainBlockedText)
       => pre.until_after <= pre.until_before

\* C24 (as claimed): the delay set by a 429 is applied by the pre-check
\* that finds blocked_until due, and after the next successful response
\* the host has no extra delay.
C24_DelayUntilSuccess ==
  /\ (pre.kind \in {"sleeping", "admitted"} /\ pre.due) => pre.delay >= DelayMin
  /\ (mw.kind = "done" /\ mw.raised = "nothing" /\ mw.response.status = 200)
       => mw.delay_after = 0

\* C25: a pre-check on a host whose blocked_until lies in the future
\* raises without sleeping and leaves blocked_until, the blocked domains,
\* the delays and the request timestamps of every host as they were.
C25_RejectedPreCheckChangesNothing ==
  pre.kind = "raised" => (pre.slept = 0 /\ pre.unchanged)
\* A pre-check was rejected for a host that has a penalty, a delay and a
\* request timestamp from an earlier admitted request.
C25_Witness ==
  /\ pre.kind = "raised"
  /\ pre.domain \in DOMAIN blocked_until
  /\ pre.domain \in DOMAIN domain_delays
  /\ pre.domain \in DOMAIN request_timestamps

\* No two of any n consecutive values of a run are the same.
Cycles(run, n) ==
  \A i, j \in DOMAIN run : (i < j /\ j - i < n) => run[i] # run[j]

\* C26 (as claimed): while a proxy of the pool is not marked bad, get_proxy
\* returns a pool proxy that is not marked bad, and calls made with the
\* pool and the bad set unchanged go round the healthy proxies.
C26_HealthyProxyReturned ==
  /\ (got.last.who # "none" /\ got.last.healthy # {})
       => got.last.value \in got.last.healthy
  /\ Healthy(pm) # {} => Cycles(got.manager_run, Cardinality(Healthy(pm)))
  /\ Healthy(pmw) # {} => Cycles(got.middleware_run, Cardinality(Healthy(pmw)))

\* C27 (as claimed): with a non-empty pool whose proxies are all marked
\* bad, get_proxy clears the bad set and returns a proxy of the pool.
C27_AllBadTerminates ==
  (got.last.who # "none" /\ got.last.pool # {} /\ got.last.healthy = {})
    => /\ got.last.value \in got.last.pool
       /\ got.last.bad_after = {}

\* C28 (as claimed): the seen-set holds a URL only if its page was saved,
\* and a handled task whose URL is not in the seen-set was not dropped as a
\* duplicate: it was fetched and has its result descriptor.
C28_VisitedOnlyAfterSave ==
  /\ \A u \in URLs :
       IsVisited(u) => \E i \in DOMAIN saved : NormalizeUrl(saved[i].url) = NormalizeUrl(u)
  /\ \A i \in DOMAIN handled :
       ~IsVisited(handled[i].task.url)
         => ResultsOf(handled[i].task, TRUE) \cup ResultsOf(handled[i].task, FALSE) # {}

\* Calls that have their rate-limiter permit.
PastLimiter ==
  {c \in Callers : pc[c] \in {"delay", "attempt", "backoff", "returned", "raised"}}
\* The order of the stages of a download() call.
StageOrder ==
  { <<"idle", "gate">>, <<"gate", "rl_lock">>, <<"rl_lock", "rl_sleep">>,
    <<"rl_lock", "delay">>, <<"rl_sleep", "delay">>, <<"delay", "attempt">>,
    <<"delay", "returned">>, <<"attempt", "backoff">>, <<"backoff", "attempt">>,
    <<"attempt", "returned">>, <<"attempt", "raised">> }

\* C29: a download() call goes through gate, rate limiter, delay and
\* attempts in this order; the permits granted are one per call that has
\* passed the limiter, however many attempts it made; attempts are made
\* only past the limiter; and the slot is held by every call from
\* admission until it returns or raises, back-off sleeps included.
C29_StagesAndPermits ==
  /\ [](/\ Len(granted) = Cardinality(PastLimiter)
        /\ \A c \in Callers : issued[c] > 0 => c \in PastLimiter
        /\ semaphore = max_concurrent - Cardinality(InFlight))
  /\ [][\A c \in Callers : pc'[c] # pc[c] => <<pc[c], pc'[c]>> \in StageOrder]_vars
\* A call is in the back-off sleep before its third attempt, holding the
\* only slot with one permit, while another call waits at the gate.
C29_Witness ==
  /\ max_concurrent = 1
  /\ semaphore = 0
  /\ \E c \in Callers : pc[c] = "backoff" /\ issued[c] = 2
  /\ \E c \in Callers : pc[c] = "gate"
  /\ Len(granted) = 1

\* The results monitor_tasks has popped with this success flag.
DrainedWith(ok) == {i \in DOMAIN drained : drained[i].success = ok}

\* C30: completed_tasks counts the popped results whose success flag is
\* true and failed_tasks the others, so their sum is the number popped; and
\* while the master runs, the n-th result pushed is eventually popped.
C30_ResultsDrained ==
  /\ [](/\ master.completed_tasks = Cardinality(DrainedWith(TRUE))
        /\ master.failed_tasks = Cardinality(DrainedWith(FALSE))
        /\ master.completed_tasks + master.failed_tasks = Len(drained))
  /\ \A n \in 1..MaxResults :
       (master.is_running /\ Len(drained) + Len(result_queue) >= n)
         ~> (Len(drained) >= n \/ ~master.is_running)
\* The running master has popped a success and a failure and the result
\* queue is empty.
C30_Witness ==
  /\ master.is_running
  /\ master.completed_tasks >= 1
  /\ master.failed_tasks >= 1
  /\ result_queue = <<>>

(***************************************************************************)
(* Termination and resources of the pipeline, delivery of tasks, worker    *)
(* counters, run loops, download_batch and RetryMiddleware.                *)
(***************************************************************************)
\* C31: every download() call that was made returns or raises, whatever the
\* other callers do, and the sleep of one rate-limiter acquisition is at
\* most time_window.
C31_DownloadTerminates ==
  /\ [](\A c \in Callers : pc[c] = "rl_sleep" => wake[c] - rlNow \in 1..time_window)
  /\ \A c \in Callers : (pc[c] # "idle") ~> (pc[c] \in {"returned", "raised"})
\* Every call has ended: each got its permit, one of them after the sleep
\* of acquire(), and one raised after its back-off sleep.
C31_Witness ==
  /\ \A c \in Callers : pc[c] \in {"returned", "raised"}
  /\ \E c \in Callers : pc[c] = "raised" /\ slept[c] > 0
  /\ Len(granted) = NumCallers
  /\ \E i \in DOMAIN granted : granted[i] >= time_window

\* Calls that have ended.
Ended == {c \in Callers : pc[c] \in {"returned", "raised"}}

\* C32: a call that returns or raises frees its slot in that step, so with
\* no call in flight every slot is free, whatever number of calls failed.
C32_SlotReleasedOnExit ==
  /\ [](InFlight = {} => semaphore = max_concurrent)
  /\ [][\A c \in Callers :
          (c \in InFlight /\ c \in Ended') => semaphore' = semaphore + 1]_vars
\* Every call has ended and the slots are all free again: one call raised
\* the error of its last attempt, one returned a reply after a failed
\* attempt.
C32_Witness ==
  /\ Ended = Callers
  /\ semaphore = max_concurrent
  /\ \E c \in Callers : pc[c] = "raised" /\ failed[c] = retry_times /\ retry_times >= 2
  /\ \E c \in Callers : pc[c] = "returned" /\ failed[c] > 0


\* The pop_task calls that returned the task with this id: the workers that
\* hold it and the process_task calls made for it.
Deliveries(i) ==
  Cardinality({w \in Workers : task[w].id = i})
    + Cardinality({k \in DOMAIN handled : handled[k].task.id = i})
\* The places of the task queue that hold the task with this id.
Queued(i) == {k \in DOMAIN task_queue : task_queue[k].id = i}

\* C33: a task pushed once is returned by at most one pop_task call,
\* however the polling workers interleave, and once popped it is not in the
\* task queue again.
C33_DeliveredAtMostOnce ==
  \A i \in 1..MaxTasks :
    /\ Deliveries(i) <= 1
    /\ Deliveries(i) = 1 => Queued(i) = {}
\* Two workers polled one queue: one has handled the first task and holds
\* the second, the other found the queue empty.
C33_Witness ==
  /\ pushed = MaxTasks
  /\ task_queue = <<>>
  /\ \E w1, w2 \in Workers :
       /\ wpc[w1] = "process"
       /\ wpc[w2] = "idle"
       /\ \E k \in DOMAIN handled : handled[k].worker = w1


\* A task whose page was saved and has a failure result, or a URL marked
\* visited with a failure result.
SavedAndFailed ==
  {k \in DOMAIN handled :
     /\ ResultsOf(handled[k].task, FALSE) # {}
     /\ \/ SavesOf(handled[k].worker, handled[k].task.url) # {}
        \/ IsVisited(handled[k].task.url)}

\* C34 (as claimed): no task has a failure result together with a saved
\* page or a visited mark.
C34_NoFailureAfterSave == SavedAndFailed = {}

\* What process_task added to the two outcome counters of a worker in a step.
Counted(w) ==
  (stats'[w].success - stats[w].success) + (stats'[w].failed - stats[w].failed)

LoopsOf(w) == {k \in DOMAIN app.loops : app.loops[k].worker = w}
LoopsRunning(w) == {k \in LoopsOf(w) : app.loops[k].at = "loop"}

\* C36 (as claimed): once run_worker has started its workers, each worker
\* has exactly one run() coroutine, and no two run() loops of one worker
\* are ever inside their loop together.
C36_OneLoopPerWorker ==
  /\ app.pc \in {"gather", "done"} =>
       \A k \in DOMAIN app.workers : Cardinality(LoopsOf(app.workers[k])) = 1
  /\ \A w \in Workers : Cardinality(LoopsRunning(w)) <= 1


\* C37 (as claimed): RateLimiter.requests never holds more than
\* max_requests records, and every record is less than time_window older
\* than the completion of the latest acquire().
C37_RecordsBounded ==
  /\ Len(requests) <= max_requests
  /\ granted # <<>> =>
       \A i \in DOMAIN requests : granted[Len(granted)] - requests[i] < time_window


\* C38 (as claimed): whenever ProxyManager's pool is non-empty its
\* current_index is a position of the pool.
C38_IndexInPool ==
  pm.proxies # <<>> => (0 <= pm.current_index /\ pm.current_index < Len(pm.proxies))


\* What download_batch is claimed to return for a download, by how its
\* last HTTP attempt ended: the response built from the reply, or the error
\* dict of the error raised; with no attempt made, what download() returned.
ExpectedEntry(c) ==
  IF last[c] \in Replies THEN Response(c, last[c])
  ELSE IF last[c] \in Errors THEN ErrorEntry(last[c])
  ELSE result[c]

\* C39: download_batch returns one entry per URL, in the order of the
\* URLs: the response of the URL's download, or the error dict if it
\* raised, whatever the other downloads did.
C39_BatchOneEntryPerUrl ==
  batch.pc = "returned" =>
    /\ Len(batch.results) = batch.n
    /\ \A c \in 1..batch.n : batch.results[c] = ExpectedEntry(c)
\* A batch of all the URLs returned: the download of the second URL raised,
\* the first and the last returned responses.
C39_Witness ==
  /\ batch.pc = "returned"
  /\ batch.n = NumCallers
  /\ batch.results[1].kind = "response"
  /\ batch.results[2].kind = "error_entry"
  /\ batch.results[NumCallers].kind = "response"


\* A step of RetryMiddleware.process_exception: the call is recorded in
\* rm.last and the clock stands still.
IsProcessExceptionStep ==
  /\ rm'.last.op = "process_exception"
  /\ rm'.time = rm.time
  /\ rm' # rm

\* The messages that contain a retryable marker and no non-retryable one.
RetryableMessages ==
  { m \in RetryMessages :
      LET low == [i \in 1..Len(m) |-> LowerWord(m[i])]
      IN  /\ \E e \in retryable_errors : Mentions(e, low)
          /\ \A e \in non_retryable_errors : ~ Mentions(e, low) }

\* process_exception changes retry_queue or retry_stats only for a request
\* below max_retries with a retryable error, and then by one retry: the
\* request's retry_count goes up by one, one item is appended, and one
\* retry is counted.
RetryScheduledOnlyWhenAllowed ==
  IsProcessExceptionStep =>
    LET r == rm'.last.request
        before == GetRetryCount(rm.request[r])
    IN  \/ /\ rm'.retry_queue = rm.retry_queue
           /\ rm'.retry_stats = rm.retry_stats
           /\ rm'.request = rm.request
        \/ /\ before < max_retries
           /\ rm'.last.exception \in RetryableMessages
           /\ GetRetryCount(rm'.request[r]) = before + 1
           /\ Len(rm'.retry_queue) = Len(rm.retry_queue) + 1
           /\ SubSeq(rm'.retry_queue, 1, Len(rm.retry_queue)) = rm.retry_queue
           /\ rm'.retry_stats.total_retries = rm.retry_stats.total_retries + 1

\* No request's retry_count is above max_retries.
RetryCountBounded ==
  \A r \in RetryRequests : GetRetryCount(rm.request[r]) <= max_retries

\* Right after a process_retry_queue every scheduled retry is accounted
\* for: it succeeded, failed or is still queued.
RetriesAccounted ==
  rm.last.op = "process_retry_queue" =>
    rm.retry_stats.total_retries =
      rm.retry_stats.successful_retries + rm.retry_stats.failed_retries
        + Len(rm.retry_queue)

\* C40: process_exception schedules a retry (retry_count up by one, one item
\* appended to retry_queue) only when retry_count < max_retries and the error
\* is retryable, and otherwise leaves retry_queue and retry_stats unchanged;
\* a request's retry_count never exceeds max_retries; and after every
\* process_retry_queue total_retries equals successful_retries plus
\* failed_retries plus the length of retry_queue.
C40_RetriesBounded ==
  /\ [][RetryScheduledOnlyWhenAllowed]_vars
  /\ []RetryCountBounded
  /\ []RetriesAccounted

=============================================================================
